---- MODULE Spec2Model ----
(***************************************************************************)
(* Model of the DevSkin React Native SDK event pipeline.                   *)
(*                                                                         *)
(* MobileTransport (src/src/transport.ts) keeps a queue of QueuedItem and  *)
(* drains it in flush(): the items are grouped by type, every group is     *)
(* sent by its own async function, and a group whose send throws is        *)
(* re-queued with retryCount + 1.  JavaScript runs the code between two    *)
(* awaits atomically, so every action below is one such run: a public      *)
(* call up to its first suspension, or the continuation run by one network *)
(* response.  A continuation resumed by an already settled promise (a      *)
(* payload vetoed by beforeSend) touches only the locals of its own group, *)
(* so it is folded into the run that created it.                           *)
(*                                                                         *)
(* A record's payload object is modelled by its id: enqueue creates one    *)
(* fresh enrichedData object per call, and the re-queue spreads the        *)
(* original item, so `i.data === data` is equality of ids.                 *)
(***************************************************************************)
EXTENDS Integers, Sequences, FiniteSets

\* ---------------------------------------------------------------- constants

maxQueueSize == 30

maxRetries == 3

LONG_PRESS_DURATION == 500

SWIPE_THRESHOLD == 50

\* SWIPE_VELOCITY_THRESHOLD = 0.3 pixels/ms, as the fraction 3 / 10
SWIPE_VELOCITY_THRESHOLD == <<3, 10>>

MAX_QUEUE_SIZE == 50

\* ------------------------------------------------------------------- bounds
\* Every specification bounds the records created in a run (ids 1..new) and
\* the responses that report a failure.

\* Spec: every send operation of the transport, from the state after construction.
MaxNew == 2

MaxFailures == 1

\* SpecRetry: the retry cycle of an entry down to its drop.
MaxNewRetry == 2

MaxFailuresRetry == 4

\* SpecFull: a queue that is Headroom entries below the watermark.
Headroom == 1

MaxNewFull == 1

MaxFailuresFull == 1

\* SpecLife: a transport from its construction through its destroy() calls.
MaxNewLife == 2

MaxFailuresLife == 1

MaxDestroys == 2

\* SpecTeardown: an initialized SDK with its gesture classifier, through destroy().
MaxNewTeardown == 3

MaxTouchesTeardown == 1

\* SpecGesture: the touches a gesture classifier is given, and the time
\* Date.now() reaches.
MaxTouchesGesture == 1

MaxClockGesture == 600

\* SpecScroll: the scroll records produced.
MaxNewScroll == 2

\* SpecBuffer: the records a buffer of the classifier can take before it is
\* full at the start, the records produced and the touches.
HeadroomBuffer == 1

MaxNewBuffer == 3

MaxTouchesBuffer == 1

\* SpecLive: the records sent and the requests that fail.
MaxNewLive == 2

MaxFailuresLive == 4

\* SpecOptOut: the records produced.
MaxNewOptOut == 2

\* SpecPinch: the touches, the recordTouch calls and the time Date.now() reaches.
MaxTouchesPinch == 1

MaxRecordedPinch == 2

MaxClockPinch == 500

\* SpecTouches: the touch-downs and the time Date.now() reaches.
MaxTouchesTouches == 2

MaxClockTouches == 1000
MaxNewPerf == 2
MaxOrphansCalls == 1
MaxOrphansInit == 2
MaxDestroysInit == 2
MaxNewInit == 1
MaxNewDisabled == 2
HeadroomRecording == 2
MaxNewNetwork == 2
MaxNewRecording == 4
MaxRecordedDisabled == 2
MaxTouchesDisabled == 1
MaxClockDisabled == 500
MaxClockPerf == 800

VARIABLES
    queue,          \* MobileTransport.queue: sequence of QueuedItem
    flushInterval,  \* MobileTransport.flushInterval: TRUE while the timer is set
    flights,        \* the flush() calls that have not returned, oldest first
    errPending,     \* ids of sendError records whose direct send is on the wire
    nextId,         \* identity of the next record object
    failures,       \* failed responses the network has given so far
    dropped,        \* history: data the catch block found at maxRetries
    calls,          \* awaited sendToBackend calls outside the queue, on the wire
    raised,         \* history: public operations that rejected to their caller
    initialized,    \* DevSkinMobileSDK.initialized
    initializing,   \* DevSkinMobileSDK.initializing
    sdkTransport,   \* DevSkinMobileSDK.transport is not null
    heatmapCollector,   \* DevSkinMobileSDK.heatmapCollector is not null
    destroys,       \* history: calls of MobileTransport.destroy so far
    isOptedOut,     \* DevSkinMobileSDK.isOptedOut
    screenTimings,  \* PerformanceCollector.screenTimings: per screen, the entry or none
    sentMetrics,    \* history: the metrics PerformanceCollector handed to the transport
    lastPerfCall,   \* history: the last call of a screen method of PerformanceCollector
    delivered,      \* history: the data carried by a request that fetch answered with success
    failedSends,    \* history: the data carried by a request that failed
    orphanTimers,   \* the interval timers still running of transports the SDK has replaced
    events,         \* RecordingCollector.events: the buffered events, by identity
    recordingFlights,   \* the eventsToSend of the RecordingCollector.flush() calls awaiting
    networkConfig,  \* config.apiUrl and config.networkOptions.ignoreUrls
    lastFetch,      \* history: the url of the last request the patched fetch has seen
    heatmapOptions, \* config.heatmapOptions
    currentScreen,  \* HeatmapCollector.currentScreen
    touchQueue,     \* HeatmapCollector.touchQueue
    scrollQueue,    \* HeatmapCollector.scrollQueue
    maxScrollDepth, \* HeatmapCollector.maxScrollDepth (an absent key reads as 0)
    scrollStartY,   \* HeatmapCollector.scrollStartY
    touchStartTime, \* HeatmapCollector.touchStartTime
    touchStartPoint,    \* HeatmapCollector.touchStartPoint, or Null
    longPressTimeout,   \* HeatmapCollector.longPressTimeout: a timer handle, or Null
    heatmapFlushInterval,   \* HeatmapCollector.flushInterval: TRUE while the timer is set
    timeouts,       \* the setTimeout callbacks that are pending: handle and due time
    nextTimeout,    \* the handle the next setTimeout returns
    now,            \* Date.now()
    lastInput,      \* history: the arguments of the last onScroll call (with the
                    \* depth it computed) or of the last onTouchEnd call that
                    \* found a touch-down point
    recorded,       \* history: the recordTouch calls so far, before the sampling draw
    scrolled        \* history: for each screen, the depths of the scroll records
                    \* produced since its last setCurrentScreen

transportVars == <<queue, flushInterval, flights, errPending, nextId, failures, dropped>>

sdkVars == <<calls, raised, initialized, initializing>>

perfVars == <<screenTimings, sentMetrics, lastPerfCall>>

wireVars == <<delivered, failedSends>>

recordingVars == <<events, recordingFlights>>

networkVars == <<networkConfig, lastFetch>>

lifeVars ==
    <<sdkTransport, heatmapCollector, destroys, isOptedOut, perfVars, wireVars, orphanTimers,
      recordingVars, networkVars>>

heatmapVars ==
    <<heatmapOptions, currentScreen, touchQueue, scrollQueue, maxScrollDepth,
      scrollStartY, touchStartTime, touchStartPoint, longPressTimeout,
      heatmapFlushInterval, timeouts, nextTimeout, now, lastInput, recorded, scrolled>>

vars == <<transportVars, sdkVars, lifeVars, heatmapVars>>

\* ------------------------------------------------------------------ helpers

Range(s) == {s[i] : i \in 1..Len(s)}

\* interface QueuedItem (timestamp is written and never read)
QueuedItem(t, d, r) == [type |-> t, data |-> d, retryCount |-> r]

RemoveAt(s, i) == SubSeq(s, 1, i - 1) \o SubSeq(s, i + 1, Len(s))

\* ------------------------------------------------------------------ flush()

\* Object.entries(grouped): the types in order of first appearance in items.
RECURSIVE GroupKeys(_)
GroupKeys(items) ==
    IF items = <<>> THEN <<>>
    ELSE LET rest == GroupKeys(SubSeq(items, 1, Len(items) - 1))
             last == items[Len(items)].type
         IN  IF last \in Range(rest) THEN rest ELSE Append(rest, last)

\* grouped[type]: the data of the items of that type, in queue order.
GroupData(items, t) ==
    LET sel == SelectSeq(items, LAMBDA it : it.type = t)
    IN  [k \in 1..Len(sel) |-> sel[k].data]

\* Mutant of BatchRequest: the heatmap branch left to the one-by-one loop.
BatchRequestEventsOnly(t, dataArray) == t = "event" /\ Len(dataArray) > 1

\* The branches of the group function that put the whole dataArray in one payload.
BatchRequest(t, dataArray) ==
    \/ t = "event" /\ Len(dataArray) > 1
    \/ t = "heatmap"

\* The state of one group function: `at` is the index in dataArray of the
\* request being awaited, `requests` the payloads handed to fetch so far,
\* `vetoed` the data whose payload beforeSend refused, `caught` whether the
\* catch block has run.
NewGroup(t, dataArray) ==
    [type |-> t, dataArray |-> dataArray, state |-> "awaiting", at |-> 0,
     requests |-> <<>>, vetoed |-> {}, caught |-> FALSE]

\* The for-loops of the group function from index k on: sendToBackend returns
\* at once for a vetoed payload, and suspends on fetch for the first other one.
\* V is the set of payloads beforeSend refuses in this run.
RECURSIVE SendFrom(_, _, _)
SendFrom(g, k, V) ==
    IF k > Len(g.dataArray)
    THEN [g EXCEPT !.state = "done", !.at = 0]
    ELSE IF g.dataArray[k] \in V
    THEN SendFrom([g EXCEPT !.vetoed = @ \cup {g.dataArray[k]}], k + 1, V)
    ELSE [g EXCEPT !.state = "awaiting", !.at = k,
                   !.requests = Append(@, <<g.dataArray[k]>>)]

\* The batch branches: one sendToBackend call for the whole dataArray; the
\* verdict of beforeSend on the batch payload is keyed by its first record.
SendBatch(g, V) ==
    IF g.dataArray[1] \in V
    THEN [g EXCEPT !.state = "done", !.vetoed = Range(g.dataArray)]
    ELSE [g EXCEPT !.state = "awaiting", !.at = Len(g.dataArray),
                   !.requests = <<g.dataArray>>]

\* The group function up to its first suspension.
StartGroup(t, dataArray, V) ==
    IF BatchRequest(t, dataArray)
    THEN SendBatch(NewGroup(t, dataArray), V)
    ELSE SendFrom(NewGroup(t, dataArray), 1, V)

\* The payloads whose beforeSend verdict a run over these items can ask for.
HookCalls(items) ==
    LET keys == GroupKeys(items)
    IN  UNION { LET d == GroupData(items, keys[i])
                IN  IF BatchRequest(keys[i], d) THEN {d[1]} ELSE Range(d)
                : i \in 1..Len(keys) }

\* Mutant of TakeQueue: the queue is copied and not cleared.
TakeQueueKeep(q) == q

\* flush() up to `await Promise.allSettled`: returns the new queue and flights.
TakeQueue(q) == <<>>

FlushOp(q, fl, V) ==
    IF q = <<>> THEN [queue |-> q, flights |-> fl]
    ELSE LET keys == GroupKeys(q)
             grps == [i \in 1..Len(keys) |->
                        StartGroup(keys[i], GroupData(q, keys[i]), V)]
         IN  [queue   |-> TakeQueue(q),
              flights |-> Append(fl, [items |-> q, groups |-> grps])]

\* items.find((i) => i.data === data)
Find(items, d) ==
    items[CHOOSE i \in 1..Len(items) :
            /\ items[i].data = d
            /\ \A j \in 1..(i - 1) : items[j].data # d]

\* Mutant of Requeued: the catch block without the maxRetries test.
RequeuedUncapped(items, dataArray) ==
    LET orig == [k \in 1..Len(dataArray) |-> Find(items, dataArray[k])]
    IN  [k \in 1..Len(orig) |-> [orig[k] EXCEPT !.retryCount = @ + 1]]

\* Mutant of Requeued: the catch block pushing every item of the flush.
RequeuedWholeFlush(items, dataArray) ==
    LET keep == SelectSeq(items, LAMBDA it : it.retryCount < maxRetries)
    IN  [k \in 1..Len(keep) |-> [keep[k] EXCEPT !.retryCount = @ + 1]]

\* The catch block: what dataArray.forEach pushes on the queue.
Requeued(items, dataArray) ==
    LET orig == [k \in 1..Len(dataArray) |-> Find(items, dataArray[k])]
        keep == SelectSeq(orig, LAMBDA it : it.retryCount < maxRetries)
    IN  [k \in 1..Len(keep) |-> [keep[k] EXCEPT !.retryCount = @ + 1]]

\* Mutant of AllSettled: Promise.race for Promise.allSettled.
AnySettled(groups) == \E i \in 1..Len(groups) : groups[i].state = "done"

\* await Promise.allSettled(promises)
AllSettled(groups) == \A i \in 1..Len(groups) : groups[i].state = "done"

\* The continuation of a settled flush() is a microtask: it runs before the
\* event loop takes its next task (a call, a timer, a response).
MicrotasksDrained == \A s \in 1..Len(flights) : ~AllSettled(flights[s].groups)

\* ---------------------------------------------------------------- payloads

\* The keys sendToBackend adds to every payload.
Added == {"apiKey", "applicationId", "environment", "release", "appVersion"}

\* The keys enqueue adds to every queued record.
Enriched == {"applicationId", "sessionId", "platform"}

\* The keys of the record objects the SDK and its collectors hand to the
\* transport, by category.
RecordKeys(t) ==
    CASE t = "event" -> {"eventName", "eventType", "timestamp", "sessionId", "userId",
                         "anonymousId", "properties", "screenName"}
      [] t = "screen" -> {"sessionId", "screenName", "previousScreen", "timestamp",
                          "properties"}
      [] t = "network" -> {"sessionId", "url", "method", "durationMs", "timestamp",
                           "initiator"}
      [] t = "performance" -> {"sessionId", "metricName", "value", "timestamp"}
      [] t = "error" -> {"message", "type", "timestamp", "sessionId", "userId",
                         "screenName", "breadcrumbs", "device", "app", "isFatal"}
      [] t = "heatmap" -> {"type", "screenName", "timestamp"}

\* The top-level keys of the payload of a request of the group function of
\* category t that carries these records.
PayloadKeys(t, records) ==
    IF t = "event" /\ Len(records) > 1 THEN {"events"} \cup Added
    ELSE IF t = "heatmap" THEN {"heatmaps", "apiKey", "appId"} \cup Added
    ELSE RecordKeys(t) \cup Enriched \cup Added

\* The top-level keys of the payload of a direct call.
DirectPayloadKeys(op) ==
    CASE op = "startSession" -> {"sessionId", "userId", "anonymousId", "startedAt",
                                 "platform", "device", "app"} \cup Added
      [] op = "updateSession" -> Added
      [] op = "identifyUser" -> {"userId", "anonymousId", "traits", "sessionId",
                                 "timestamp"} \cup Added
      [] op = "sendEventBatch" -> {"events"} \cup Added
      [] op = "sendScreenshot" -> {"screenshot"} \cup Added
      [] op = "sendRecordingEvents" -> {"session_id", "events", "timestamp"} \cup Added
      [] op = "sendError" -> RecordKeys("error") \cup Added

\* -------------------------------------------------------------- urls

\* A url is a sequence of parts (scheme, host, path); u.includes(p).
Includes(u, p) ==
    \E i \in 1..(Len(u) - Len(p) + 1) : SubSeq(u, i, i + Len(p) - 1) = p

\* 'https://api-monitoring.devskin.com', the default of the transport, and
\* 'api-monitoring.devskin.com', the default of shouldIgnoreUrl.
DefaultApiUrl == <<"https://", "api-monitoring.devskin.com">>

DefaultApiHost == <<"api-monitoring.devskin.com">>

\* The configuration after the defaults of init; an apiUrl of <<>> is one
\* that is undefined or ''.
DefaultNetworkConfig == [apiUrl |-> DefaultApiUrl, ignoreUrls |-> {}]

\* MobileTransport.getEndpointForType and the batch endpoint of flush.
Endpoint(t, batch) ==
    CASE t = "event" /\ batch -> <<"/v1/rum/events/batch">>
      [] t = "event" /\ ~batch -> <<"/v1/rum/events">>
      [] t = "error" -> <<"/v1/errors/errors">>
      [] t = "network" -> <<"/v1/rum/network-requests">>
      [] t = "performance" -> <<"/v1/rum/web-vitals">>
      [] t = "heatmap" -> <<"/v1/sdk/heatmap">>
      [] t = "screen" -> <<"/v1/rum/page-views">>

\* `${this.apiUrl}${endpoint}` with this.apiUrl = config.apiUrl || default.
TransportUrl(endpoint) ==
    (IF networkConfig.apiUrl # <<>> THEN networkConfig.apiUrl ELSE DefaultApiUrl) \o endpoint

\* Mutant of shouldIgnoreUrl: the custom ignore patterns only.
shouldIgnoreUrlPatternsOnly(url) ==
    \E pattern \in networkConfig.ignoreUrls : Includes(url, pattern)

\* NetworkCollector.shouldIgnoreUrl
shouldIgnoreUrl(url) ==
    \/ Includes(url, IF networkConfig.apiUrl # <<>> THEN networkConfig.apiUrl
                     ELSE DefaultApiHost)
    \/ \E pattern \in networkConfig.ignoreUrls : Includes(url, pattern)

\* ----------------------------------------------------------------- enqueue

\* Mutant of EnqueueOp: the watermark test with > for >=.
EnqueueOpLate(t, d, q, fl, V) ==
    LET q2 == Append(q, QueuedItem(t, d, 0))
    IN  IF Len(q2) > maxQueueSize
        THEN FlushOp(q2, fl, V)
        ELSE [queue |-> q2, flights |-> fl]

\* enqueue(type, data): push, then flush when the queue is full.
EnqueueOp(t, d, q, fl, V) ==
    LET q2 == Append(q, QueuedItem(t, d, 0))
    IN  IF Len(q2) >= maxQueueSize
        THEN FlushOp(q2, fl, V)
        ELSE [queue |-> q2, flights |-> fl]

Verdicts(t, d, q) ==
    IF Len(q) + 1 >= maxQueueSize
    THEN SUBSET HookCalls(Append(q, QueuedItem(t, d, 0)))
    ELSE {{}}

Enqueue(t, d) ==
    /\ \E V \in Verdicts(t, d, queue) :
         LET r == EnqueueOp(t, d, queue, flights, V)
         IN  /\ queue' = r.queue
             /\ flights' = r.flights

\* ------------------------------------------------------------------ actions

\* The screens the application shows; '' is currentScreen before the first one.
ScreenNames == {"", "Home", "Detail"}

\* heatmapOptions of the default config of DevSkinMobileSDK.init;
\* touchSampling in percent.
DefaultHeatmapOptions ==
    [enabled |-> TRUE, trackTouches |-> TRUE, trackScrolls |-> TRUE,
     trackGestures |-> TRUE, touchSampling |-> 100]

\* A HeatmapCollector after its constructor, and after start() when running;
\* no timeout is pending, the clock is at 0.
NewHeatmapCollector(options, running) ==
    /\ heatmapOptions = options
    /\ currentScreen = ""
    /\ touchQueue = <<>>
    /\ scrollQueue = <<>>
    /\ maxScrollDepth = [s \in ScreenNames |-> 0]
    /\ scrollStartY = 0
    /\ touchStartTime = 0
    /\ touchStartPoint = {}
    /\ longPressTimeout = 0
    /\ heatmapFlushInterval = running
    /\ timeouts = {}
    /\ nextTimeout = 1
    /\ now = 0
    /\ lastInput = <<>>
    /\ recorded = <<>>
    /\ scrolled = [s \in ScreenNames |-> <<>>]

PreloadLen == maxQueueSize - Headroom

\* The queue after PreloadLen sendEvent calls within one timer period.
Preload == [k \in 1..PreloadLen |-> QueuedItem("event", k - PreloadLen - 1, 0)]

InitWith(q) ==
    /\ queue = q
    /\ flushInterval = TRUE
    /\ flights = <<>>
    /\ errPending = {}
    /\ nextId = 1
    /\ failures = 0
    /\ dropped = {}
    /\ calls = {}
    /\ raised = {}
    /\ initialized = FALSE
    /\ initializing = FALSE
    /\ sdkTransport = FALSE
    /\ heatmapCollector = FALSE
    /\ isOptedOut = FALSE
    /\ screenTimings = [s \in ScreenNames |-> {}]
    /\ sentMetrics = <<>>
    /\ lastPerfCall = <<>>
    /\ delivered = {}
    /\ failedSends = {}
    /\ orphanTimers = 0
    /\ events = <<>>
    /\ recordingFlights = <<>>
    /\ networkConfig = DefaultNetworkConfig
    /\ lastFetch = <<>>
    /\ destroys = 0
    /\ NewHeatmapCollector(DefaultHeatmapOptions, FALSE)

Init == InitWith(<<>>)

NewRecord(t) ==
    /\ MicrotasksDrained
    /\ Enqueue(t, nextId)
    /\ nextId' = nextId + 1
    /\ UNCHANGED <<flushInterval, errPending, failures, dropped, sdkVars, heatmapVars, lifeVars>>

sendEvent == NewRecord("event")

sendScreenView == NewRecord("screen")

sendNetworkRequest == NewRecord("network")

sendPerformanceMetric == NewRecord("performance")

sendTouchData == NewRecord("heatmap")

sendScrollData == NewRecord("heatmap")

\* A call of sendToBackend and who receives its rejection: the application
\* that awaits the method, DevSkinMobileSDK.init, nobody (DevSkinMobileSDK.identify
\* drops the promise), the try of the group function of flush, or the
\* catch callback of sendError.
Call(op, by) == [op |-> op, by |-> by]

\* sendToBackend rethrows what fetch or a non-2xx response threw: the
\* public operations that reject to their caller because of it.
Rethrown(c) ==
    CASE c.by = "app"      -> {c.op}
      [] c.by = "init"     -> {"init"}
      [] c.by = "identify" -> {}
      [] c.by = "try"      -> {}
      [] c.by = "catch"    -> {}

\* sendError: sendToBackend up to fetch; a vetoed payload resolves at once.
sendError ==
    /\ MicrotasksDrained
    /\ nextId' = nextId + 1
    /\ \E veto \in BOOLEAN :
         errPending' = IF veto THEN errPending ELSE errPending \cup {nextId}
    /\ UNCHANGED <<queue, flushInterval, flights, failures, dropped, sdkVars, heatmapVars, lifeVars>>

\* Mutant of ErrorResponse: the callback attached with finally for catch.
ErrorResponseAlways(d, ok) ==
    /\ MicrotasksDrained
    /\ d \in errPending
    /\ errPending' = errPending \ {d}
    /\ failures' = IF ok THEN failures ELSE failures + 1
    /\ raised' = IF ok THEN raised ELSE raised \cup Rethrown(Call("sendError", "catch"))
    /\ Enqueue("error", d)
    /\ delivered' = IF ok THEN delivered \cup {d} ELSE delivered
    /\ failedSends' = IF ok THEN failedSends ELSE failedSends \cup {d}
    /\ UNCHANGED <<flushInterval, nextId, dropped, calls, initialized, initializing,
                   heatmapVars, sdkTransport, heatmapCollector,
                   destroys, isOptedOut, perfVars, orphanTimers,
                   recordingVars, networkVars>>

\* The direct send of an error settles; the catch callback enqueues on failure.
ErrorResponse(d, ok) ==
    /\ MicrotasksDrained
    /\ d \in errPending
    /\ errPending' = errPending \ {d}
    /\ IF ok
       THEN UNCHANGED <<queue, flights, failures, raised>>
       ELSE /\ failures' = failures + 1
            /\ raised' = raised \cup Rethrown(Call("sendError", "catch"))
            /\ Enqueue("error", d)
    /\ delivered' = IF ok THEN delivered \cup {d} ELSE delivered
    /\ failedSends' = IF ok THEN failedSends ELSE failedSends \cup {d}
    /\ UNCHANGED <<flushInterval, nextId, dropped, calls, initialized, initializing,
                   heatmapVars, sdkTransport, heatmapCollector,
                   destroys, isOptedOut, perfVars, orphanTimers,
                   recordingVars, networkVars>>

FlushCall ==
    /\ MicrotasksDrained
    /\ \E V \in SUBSET HookCalls(queue) :
         LET r == FlushOp(queue, flights, V)
         IN  /\ queue' = r.queue
             /\ flights' = r.flights

\* The public flush().
flush ==
    /\ FlushCall
    /\ UNCHANGED <<flushInterval, errPending, nextId, failures, dropped, sdkVars, heatmapVars, lifeVars>>

\* Mutant of PeriodicFlush: setTimeout for setInterval, the callback runs once.
PeriodicFlushOnce ==
    /\ flushInterval
    /\ flushInterval' = FALSE
    /\ FlushCall
    /\ UNCHANGED <<errPending, nextId, failures, dropped, sdkVars, heatmapVars, lifeVars>>

\* The setInterval callback of startPeriodicFlush.
PeriodicFlush ==
    /\ flushInterval
    /\ FlushCall
    /\ UNCHANGED <<flushInterval, errPending, nextId, failures, dropped, sdkVars, heatmapVars, lifeVars>>

\* Mutant of destroy: the final flush without clearInterval.
destroyKeepsTimer ==
    /\ MicrotasksDrained
    /\ destroys' = destroys + 1
    /\ UNCHANGED flushInterval
    /\ FlushCall
    /\ UNCHANGED <<errPending, nextId, failures, dropped, sdkVars, heatmapVars,
                   sdkTransport, heatmapCollector, isOptedOut, perfVars, wireVars, orphanTimers,
                   recordingVars, networkVars>>

\* MobileTransport.destroy(): clearInterval, then flush() without await.
destroy ==
    /\ MicrotasksDrained
    /\ destroys' = destroys + 1
    /\ flushInterval' = FALSE
    /\ FlushCall
    /\ UNCHANGED <<errPending, nextId, failures, dropped, sdkVars, heatmapVars,
                   sdkTransport, heatmapCollector, isOptedOut, perfVars, wireVars, orphanTimers,
                   recordingVars, networkVars>>

\* The data of a failed group that the catch block does not push again.
AtMaxRetries(items, dataArray) ==
    {d \in Range(dataArray) : Find(items, d).retryCount >= maxRetries}

\* The response to the request group i of flight s awaits: on success the
\* group function goes on to its next send, on failure its catch block runs.
GroupResponse(s, i, ok) ==
    /\ MicrotasksDrained
    /\ s \in 1..Len(flights)
    /\ i \in 1..Len(flights[s].groups)
    /\ flights[s].groups[i].state = "awaiting"
    /\ LET f == flights[s]
           g == f.groups[i]
       IN  IF ok
           THEN /\ \E V \in SUBSET {g.dataArray[k] : k \in (g.at + 1)..Len(g.dataArray)} :
                     flights' = [flights EXCEPT ![s].groups[i] = SendFrom(g, g.at + 1, V)]
                /\ delivered' = delivered \cup Range(g.requests[Len(g.requests)])
                /\ UNCHANGED <<queue, failures, dropped, raised, failedSends>>
           ELSE /\ failures' = failures + 1
                /\ failedSends' = failedSends \cup Range(g.requests[Len(g.requests)])
                /\ UNCHANGED delivered
                /\ raised' = raised \cup Rethrown(Call("flush", "try"))
                /\ queue' = queue \o Requeued(f.items, g.dataArray)
                /\ dropped' = dropped \cup AtMaxRetries(f.items, g.dataArray)
                /\ flights' = [flights EXCEPT ![s].groups[i] =
                                  [g EXCEPT !.state = "done", !.caught = TRUE]]
    /\ UNCHANGED <<flushInterval, errPending, nextId, calls, initialized, initializing,
                   heatmapVars, sdkTransport, heatmapCollector,
                   destroys, isOptedOut, perfVars, orphanTimers,
                   recordingVars, networkVars>>

\* flush() resumes after Promise.allSettled and returns.
FlushReturn(s) ==
    /\ s \in 1..Len(flights)
    /\ AllSettled(flights[s].groups)
    /\ flights' = RemoveAt(flights, s)
    /\ UNCHANGED <<queue, flushInterval, errPending, nextId, failures, dropped, sdkVars, heatmapVars, lifeVars>>

\* ------------------------------------------------------ HeatmapCollector

Abs(n) == IF n < 0 THEN 0 - n ELSE n

\* distance * distance of onTouchEnd: dx * dx + dy * dy before Math.sqrt
DistanceSquared(dx, dy) == dx * dx + dy * dy

\* Mutant of IsTap: the distance compared without Math.sqrt.
IsTapSquared(dx, dy, duration) ==
    DistanceSquared(dx, dy) < 10 /\ duration < LONG_PRESS_DURATION

\* distance < 10 && duration < LONG_PRESS_DURATION
IsTap(dx, dy, duration) ==
    DistanceSquared(dx, dy) < 10 * 10 /\ duration < LONG_PRESS_DURATION

\* velocity >= SWIPE_VELOCITY_THRESHOLD with velocity = distance / duration:
\* a division by 0 gives Infinity for a positive distance and NaN for 0.
FastEnough(dx, dy, duration) ==
    IF duration = 0 THEN DistanceSquared(dx, dy) > 0
    ELSE /\ duration > 0
         /\ DistanceSquared(dx, dy) * SWIPE_VELOCITY_THRESHOLD[2] * SWIPE_VELOCITY_THRESHOLD[2]
              >= duration * duration * SWIPE_VELOCITY_THRESHOLD[1] * SWIPE_VELOCITY_THRESHOLD[1]

\* Mutant of IsSwipe: the distance test alone.
IsSwipeAnySpeed(dx, dy, duration) ==
    DistanceSquared(dx, dy) >= SWIPE_THRESHOLD * SWIPE_THRESHOLD

\* distance >= SWIPE_THRESHOLD && velocity >= SWIPE_VELOCITY_THRESHOLD
IsSwipe(dx, dy, duration) ==
    /\ DistanceSquared(dx, dy) >= SWIPE_THRESHOLD * SWIPE_THRESHOLD
    /\ FastEnough(dx, dy, duration)

\* Mutant of getSwipeDirection: dx and dy compared without Math.abs.
getSwipeDirectionSigned(dx, dy) ==
    IF dx > dy
    THEN (IF dx > 0 THEN "right" ELSE "left")
    ELSE (IF dy > 0 THEN "down" ELSE "up")

getSwipeDirection(dx, dy) ==
    IF Abs(dx) > Abs(dy)
    THEN (IF dx > 0 THEN "right" ELSE "left")
    ELSE (IF dy > 0 THEN "down" ELSE "up")

\* The values Math.random() returns, in percent: 0 <= draw < 100.
Draws == {0, 60, 99}

\* The touchData object of recordTouch (relative coordinates, screen size and
\* timestamp left out); `id` stands for the identity of the object.
TouchData(id, type, x, y, extra) ==
    [id |-> id, type |-> type, x |-> x, y |-> y, screenName |-> currentScreen,
     extra |-> extra]

\* The scrollData object of onScroll.
ScrollData(id, scrollDepth, contentHeight, viewportHeight, direction) ==
    [id |-> id, screenName |-> currentScreen, scrollDepth |-> scrollDepth,
     maxScrollDepth |-> scrollDepth, contentHeight |-> contentHeight,
     viewportHeight |-> viewportHeight, direction |-> direction]

\* transport.sendTouchData / sendScrollData for each buffered record in turn:
\* the enqueue that makes the queue reach maxQueueSize entries flushes it, so
\* the records leave in chunks; chunk j ends with the record of index
\* ChunkEnd(j), and the records after the last chunk stay in the queue.
ChunkEnd(q, j) ==
    (IF Len(q) + 1 >= maxQueueSize THEN 1 ELSE maxQueueSize - Len(q)) + (j - 1) * maxQueueSize

Chunks(records, q) ==
    IF Len(records) < ChunkEnd(q, 1) THEN 0
    ELSE 1 + (Len(records) - ChunkEnd(q, 1)) \div maxQueueSize

\* The queue that the flush of chunk j takes.
Chunk(records, q, j) ==
    LET items == [k \in 1..Len(records) |-> QueuedItem("heatmap", records[k].id, 0)]
    IN  IF j = 1 THEN q \o SubSeq(items, 1, ChunkEnd(q, 1))
        ELSE SubSeq(items, ChunkEnd(q, j - 1) + 1, ChunkEnd(q, j))

SendAll(records, q, fl, V) ==
    LET n == Chunks(records, q)
        items == [k \in 1..Len(records) |-> QueuedItem("heatmap", records[k].id, 0)]
    IN  IF n = 0 THEN [queue |-> q \o items, flights |-> fl]
        ELSE [queue   |-> SubSeq(items, ChunkEnd(q, n) + 1, Len(items)),
              flights |-> fl \o [j \in 1..n |->
                                   FlushOp(Chunk(records, q, j), <<>>, V).flights[1]]]

\* The payloads whose beforeSend verdict these enqueue calls can ask for.
SendAllVerdicts(records, q) ==
    UNION {HookCalls(Chunk(records, q, j)) : j \in 1..Chunks(records, q)}

\* HeatmapCollector.flush() on buffers tq and sq: the touches, then the scrolls.
HeatmapFlush(tq, sq) ==
    /\ touchQueue' = <<>>
    /\ scrollQueue' = <<>>
    /\ \E V \in SUBSET SendAllVerdicts(tq \o sq, queue) :
         LET r == SendAll(tq \o sq, queue, flights, V)
         IN  /\ queue' = r.queue
             /\ flights' = r.flights

\* Mutant of recordTouch: the test of the full buffer with > for >=.
recordTouchLate(type, x, y, extra) ==
    /\ recorded' = Append(recorded, [type |-> type, x |-> x, y |-> y, extra |-> extra])
    /\ \E draw \in Draws :
        IF draw > heatmapOptions.touchSampling
        THEN UNCHANGED <<touchQueue, scrollQueue, queue, flights, nextId>>
        ELSE LET tq == Append(touchQueue, TouchData(nextId, type, x, y, extra))
             IN  /\ nextId' = nextId + 1
                 /\ IF Len(tq) > MAX_QUEUE_SIZE
                    THEN HeatmapFlush(tq, scrollQueue)
                    ELSE /\ touchQueue' = tq
                         /\ UNCHANGED <<scrollQueue, queue, flights>>

\* recordTouch: the sampling draw, the push, the flush of a full buffer.
recordTouch(type, x, y, extra) ==
    /\ recorded' = Append(recorded, [type |-> type, x |-> x, y |-> y, extra |-> extra])
    /\ \E draw \in Draws :
        IF draw > heatmapOptions.touchSampling
        THEN UNCHANGED <<touchQueue, scrollQueue, queue, flights, nextId>>
        ELSE LET tq == Append(touchQueue, TouchData(nextId, type, x, y, extra))
             IN  /\ nextId' = nextId + 1
                 /\ IF Len(tq) >= MAX_QUEUE_SIZE
                    THEN HeatmapFlush(tq, scrollQueue)
                    ELSE /\ touchQueue' = tq
                         /\ UNCHANGED <<scrollQueue, queue, flights>>

\* What no method of the collector writes.
heatmapFrame ==
    UNCHANGED <<flushInterval, errPending, failures, dropped, sdkVars, lifeVars,
                heatmapOptions>>

onTouchStart(x, y) ==
    /\ MicrotasksDrained
    /\ heatmapOptions.trackTouches
    /\ touchStartTime' = now
    /\ touchStartPoint' = {[x |-> x, y |-> y]}
    /\ longPressTimeout' = nextTimeout
    /\ timeouts' = timeouts \cup {[handle |-> nextTimeout, due |-> now + LONG_PRESS_DURATION]}
    /\ nextTimeout' = nextTimeout + 1
    /\ heatmapFrame
    /\ UNCHANGED <<queue, flights, nextId, currentScreen, touchQueue, scrollQueue,
                   maxScrollDepth, scrollStartY, heatmapFlushInterval, now, lastInput, recorded, scrolled>>

\* The callback of the setTimeout of onTouchStart; a due callback runs when
\* the event loop gets to it, which may be after later events.
LongPressTimer(t) ==
    /\ MicrotasksDrained
    /\ t \in timeouts
    /\ now >= t.due
    /\ timeouts' = timeouts \ {t}
    /\ IF touchStartPoint # {}
       THEN LET p == CHOOSE pt \in touchStartPoint : TRUE
            IN  recordTouch("longPress", p.x, p.y, [duration |-> LONG_PRESS_DURATION])
       ELSE UNCHANGED <<touchQueue, scrollQueue, queue, flights, nextId, recorded>>
    /\ heatmapFrame
    /\ UNCHANGED <<currentScreen, maxScrollDepth, scrollStartY, touchStartTime,
                   touchStartPoint, longPressTimeout, heatmapFlushInterval,
                   nextTimeout, now, lastInput, scrolled>>

\* clearTimeout(this.longPressTimeout)
ClearTimeout(handle) == {t \in timeouts : t.handle # handle}

onTouchEnd(x, y) ==
    /\ MicrotasksDrained
    /\ heatmapOptions.trackTouches
    /\ IF longPressTimeout # 0
       THEN timeouts' = ClearTimeout(longPressTimeout) /\ longPressTimeout' = 0
       ELSE UNCHANGED <<timeouts, longPressTimeout>>
    /\ IF touchStartPoint = {}
       THEN UNCHANGED <<touchQueue, scrollQueue, queue, flights, nextId, recorded, lastInput>>
       ELSE LET p == CHOOSE pt \in touchStartPoint : TRUE
                duration == now - touchStartTime
                dx == x - p.x
                dy == y - p.y
            IN  /\ lastInput' = <<[op |-> "onTouchEnd", x |-> x, y |-> y]>>
                /\ IF IsTap(dx, dy, duration)
                   THEN recordTouch("tap", p.x, p.y, [duration |-> duration])
                   ELSE IF IsSwipe(dx, dy, duration)
                   THEN recordTouch("swipe", p.x, p.y,
                                    [direction |-> getSwipeDirection(dx, dy),
                                     duration |-> duration, endX |-> x, endY |-> y])
                   ELSE UNCHANGED <<touchQueue, scrollQueue, queue, flights, nextId,
                                    recorded>>
    /\ touchStartPoint' = {}
    /\ heatmapFrame
    /\ UNCHANGED <<currentScreen, maxScrollDepth, scrollStartY, touchStartTime,
                   heatmapFlushInterval, nextTimeout, now, scrolled>>

\* The arguments <<scrollY, maxScrollY>>, among those the specifications use,
\* for which 100 * scrollY / maxScrollY lies exactly halfway between two
\* integers and the IEEE double (scrollY / maxScrollY) * 100 lies below it:
\* (29 / 200) * 100 is 14.499999999999998, (57 / 200) * 100 is 28.499999999999996.
BelowHalf == {<<29, 200>>, <<57, 200>>}

\* Math.round((scrollY / maxScrollY) * 100) for maxScrollY > 0: Math.round
\* rounds a half up, and rounds the doubles of BelowHalf down.
RoundedPercent(scrollY, maxScrollY) ==
    LET halfUp == (200 * scrollY + maxScrollY) \div (2 * maxScrollY)
    IN  IF <<scrollY, maxScrollY>> \in BelowHalf THEN halfUp - 1 ELSE halfUp

Min(a, b) == IF a < b THEN a ELSE b

\* Mutant of ScrollDepth: the quotient without Math.min.
ScrollDepthUncapped(scrollY, contentHeight, viewportHeight) ==
    LET maxScrollY == contentHeight - viewportHeight
    IN  IF maxScrollY > 0 THEN RoundedPercent(scrollY, maxScrollY) ELSE 100

\* scrollDepth of onScroll
ScrollDepth(scrollY, contentHeight, viewportHeight) ==
    LET maxScrollY == contentHeight - viewportHeight
    IN  IF maxScrollY > 0 THEN Min(100, RoundedPercent(scrollY, maxScrollY)) ELSE 100

\* Mutant of Deeper: the test with >= for >.
DeeperOrEqual(scrollDepth, previousMax) == scrollDepth >= previousMax

\* scrollDepth > previousMax
Deeper(scrollDepth, previousMax) == scrollDepth > previousMax

\* Mutant of onScroll: scrollStartY is updated only by a call that produces
\* a record.
onScrollSampleOnRecord(scrollY, contentHeight, viewportHeight) ==
    /\ MicrotasksDrained
    /\ heatmapOptions.trackScrolls
    /\ LET scrollDepth == ScrollDepth(scrollY, contentHeight, viewportHeight)
           previousMax == maxScrollDepth[currentScreen]
           direction   == IF scrollY > scrollStartY THEN "down" ELSE "up"
       IN  /\ lastInput' = <<[op |-> "onScroll",
                                scrollY |-> scrollY, contentHeight |-> contentHeight,
                                viewportHeight |-> viewportHeight,
                                scrollDepth |-> scrollDepth]>>
           /\ IF Deeper(scrollDepth, previousMax)
              THEN /\ maxScrollDepth' = [maxScrollDepth EXCEPT ![currentScreen] = scrollDepth]
                   /\ scrolled' = [scrolled EXCEPT
                                     ![currentScreen] = Append(@, scrollDepth)]
                   /\ nextId' = nextId + 1
                   /\ LET sq == Append(scrollQueue,
                                       ScrollData(nextId, scrollDepth, contentHeight,
                                                  viewportHeight, direction))
                      IN  IF Len(sq) >= MAX_QUEUE_SIZE
                          THEN HeatmapFlush(touchQueue, sq)
                          ELSE /\ scrollQueue' = sq
                               /\ UNCHANGED <<touchQueue, queue, flights>>
                   /\ scrollStartY' = scrollY
              ELSE UNCHANGED <<maxScrollDepth, scrolled, nextId, scrollQueue, touchQueue,
                               queue, flights, scrollStartY>>
    /\ heatmapFrame
    /\ UNCHANGED <<currentScreen, touchStartTime, touchStartPoint, longPressTimeout,
                   heatmapFlushInterval, timeouts, nextTimeout, now, recorded>>

onScroll(scrollY, contentHeight, viewportHeight) ==
    /\ MicrotasksDrained
    /\ heatmapOptions.trackScrolls
    /\ LET scrollDepth == ScrollDepth(scrollY, contentHeight, viewportHeight)
           previousMax == maxScrollDepth[currentScreen]
           direction   == IF scrollY > scrollStartY THEN "down" ELSE "up"
       IN  /\ lastInput' = <<[op |-> "onScroll",
                                scrollY |-> scrollY, contentHeight |-> contentHeight,
                                viewportHeight |-> viewportHeight,
                                scrollDepth |-> scrollDepth]>>
           /\ IF Deeper(scrollDepth, previousMax)
              THEN /\ maxScrollDepth' = [maxScrollDepth EXCEPT ![currentScreen] = scrollDepth]
                   /\ scrolled' = [scrolled EXCEPT
                                     ![currentScreen] = Append(@, scrollDepth)]
                   /\ nextId' = nextId + 1
                   /\ LET sq == Append(scrollQueue,
                                       ScrollData(nextId, scrollDepth, contentHeight,
                                                  viewportHeight, direction))
                      IN  IF Len(sq) >= MAX_QUEUE_SIZE
                          THEN HeatmapFlush(touchQueue, sq)
                          ELSE /\ scrollQueue' = sq
                               /\ UNCHANGED <<touchQueue, queue, flights>>
              ELSE UNCHANGED <<maxScrollDepth, scrolled, nextId, scrollQueue, touchQueue,
                               queue, flights>>
    /\ scrollStartY' = scrollY
    /\ heatmapFrame
    /\ UNCHANGED <<currentScreen, touchStartTime, touchStartPoint, longPressTimeout,
                   heatmapFlushInterval, timeouts, nextTimeout, now, recorded>>

\* Mutant of onPinch: the pinch ends the single-pointer gesture in progress.
onPinchEndsTouch(scale, x, y) ==
    /\ MicrotasksDrained
    /\ heatmapOptions.trackGestures
    /\ recordTouch("pinch", x, y, [scale |-> scale])
    /\ touchStartPoint' = {}
    /\ timeouts' = ClearTimeout(longPressTimeout)
    /\ longPressTimeout' = 0
    /\ heatmapFrame
    /\ UNCHANGED <<currentScreen, maxScrollDepth, scrollStartY, touchStartTime,
                   heatmapFlushInterval, nextTimeout, now, lastInput, scrolled>>

onPinch(scale, x, y) ==
    /\ MicrotasksDrained
    /\ heatmapOptions.trackGestures
    /\ recordTouch("pinch", x, y, [scale |-> scale])
    /\ heatmapFrame
    /\ UNCHANGED <<currentScreen, maxScrollDepth, scrollStartY, touchStartTime,
                   touchStartPoint, longPressTimeout, heatmapFlushInterval, timeouts,
                   nextTimeout, now, lastInput, scrolled>>

\* recordElementTouch: a tap at (x || 0, y || 0) with the element's type.
recordElementTouch(elementType, x, y) ==
    /\ MicrotasksDrained
    /\ heatmapOptions.trackTouches
    /\ recordTouch("tap", x, y, [elementType |-> elementType])
    /\ heatmapFrame
    /\ UNCHANGED <<currentScreen, maxScrollDepth, scrollStartY, touchStartTime,
                   touchStartPoint, longPressTimeout, heatmapFlushInterval, timeouts,
                   nextTimeout, now, lastInput, scrolled>>

\* Mutant of setCurrentScreen: maxScrollDepth.clear() for set(screenName, 0).
setCurrentScreenClearsAll(screenName) ==
    /\ MicrotasksDrained
    /\ currentScreen' = screenName
    /\ maxScrollDepth' = [s \in ScreenNames |-> 0]
    /\ scrolled' = [scrolled EXCEPT ![screenName] = <<>>]
    /\ heatmapFrame
    /\ UNCHANGED <<queue, flights, nextId, touchQueue, scrollQueue, scrollStartY,
                   touchStartTime, touchStartPoint, longPressTimeout,
                   heatmapFlushInterval, timeouts, nextTimeout, now, lastInput, recorded>>

setCurrentScreen(screenName) ==
    /\ MicrotasksDrained
    /\ currentScreen' = screenName
    /\ maxScrollDepth' = [maxScrollDepth EXCEPT ![screenName] = 0]
    /\ scrolled' = [scrolled EXCEPT ![screenName] = <<>>]
    /\ heatmapFrame
    /\ UNCHANGED <<queue, flights, nextId, touchQueue, scrollQueue, scrollStartY,
                   touchStartTime, touchStartPoint, longPressTimeout,
                   heatmapFlushInterval, timeouts, nextTimeout, now, lastInput, recorded>>

\* HeatmapCollector.flush()
heatmapFlush ==
    /\ MicrotasksDrained
    /\ HeatmapFlush(touchQueue, scrollQueue)
    /\ heatmapFrame
    /\ UNCHANGED <<nextId, currentScreen, maxScrollDepth, scrollStartY, touchStartTime,
                   touchStartPoint, longPressTimeout, heatmapFlushInterval, timeouts,
                   nextTimeout, now, lastInput, recorded, scrolled>>

\* The setInterval callback of HeatmapCollector.start().
HeatmapPeriodicFlush ==
    /\ heatmapFlushInterval
    /\ heatmapFlush

\* HeatmapCollector.stop(): clearInterval, then flush().
heatmapStop ==
    /\ MicrotasksDrained
    /\ heatmapFlushInterval' = FALSE
    /\ HeatmapFlush(touchQueue, scrollQueue)
    /\ heatmapFrame
    /\ UNCHANGED <<nextId, currentScreen, maxScrollDepth, scrollStartY, touchStartTime,
                   touchStartPoint, longPressTimeout, timeouts, nextTimeout, now,
                   lastInput, recorded, scrolled>>

\* Time passes: Date.now() grows by dt.
Tick(dt) ==
    /\ MicrotasksDrained
    /\ now' = now + dt
    /\ UNCHANGED <<transportVars, sdkVars, lifeVars, heatmapOptions, currentScreen,
                   touchQueue, scrollQueue, maxScrollDepth, scrollStartY, touchStartTime,
                   touchStartPoint, longPressTimeout, heatmapFlushInterval, timeouts,
                   nextTimeout, lastInput, recorded, scrolled>>

\* ------------------------------------------- calls that bypass the queue

\* The methods of MobileTransport that await sendToBackend and nothing else.
DirectOps ==
    {"startSession", "updateSession", "identifyUser", "sendEventBatch",
     "sendScreenshot", "sendRecordingEvents"}

\* sendToBackend up to fetch: a vetoed payload resolves at once.
Dispatch(c, veto) == IF veto THEN calls ELSE calls \cup {c}

\* A transport method called by the application.
TransportCall(op) ==
    /\ Call(op, "app") \notin calls
    /\ \E veto \in BOOLEAN : calls' = Dispatch(Call(op, "app"), veto)
    /\ UNCHANGED <<raised, initialized, initializing, transportVars, heatmapVars, lifeVars>>

\* The fields of a HeatmapCollector.
collectorFields ==
    <<currentScreen, touchQueue, scrollQueue, maxScrollDepth, scrollStartY,
      touchStartTime, touchStartPoint, longPressTimeout, heatmapFlushInterval>>

\* initializeCollectors: a new HeatmapCollector, then its start().
initializeCollectors ==
    /\ heatmapCollector' = TRUE
    /\ currentScreen' = ""
    /\ touchQueue' = <<>>
    /\ scrollQueue' = <<>>
    /\ maxScrollDepth' = [s \in ScreenNames |-> 0]
    /\ scrollStartY' = 0
    /\ touchStartTime' = 0
    /\ touchStartPoint' = {}
    /\ longPressTimeout' = 0
    /\ heatmapFlushInterval' = heatmapOptions.enabled

\* DevSkinMobileSDK.init up to `await this.transport.startSession`, and to
\* its end when beforeSend vetoes the session payload. The transport of the
\* model is the one this call constructs, with an empty queue and its timer
\* set; of a transport that a failed init left behind the model keeps the
\* timer only.
init ==
    /\ ~(initialized \/ initializing)
    /\ sdkTransport' = TRUE
    /\ \E veto \in BOOLEAN :
         /\ calls' = Dispatch(Call("startSession", "init"), veto)
         /\ initialized' = veto
         /\ initializing' = ~veto
         /\ IF veto THEN initializeCollectors
                    ELSE UNCHANGED <<heatmapCollector, collectorFields>>
    /\ orphanTimers' = IF sdkTransport /\ flushInterval THEN orphanTimers + 1
                       ELSE orphanTimers
    /\ flushInterval' = TRUE
    /\ queue' = <<>>
    /\ flights' = <<>>
    /\ errPending' = {}
    /\ UNCHANGED <<raised, nextId, failures, dropped, destroys, isOptedOut, perfVars,
                   wireVars, recordingVars, networkVars, heatmapOptions, timeouts, nextTimeout, now, lastInput,
                   recorded, scrolled>>

\* DevSkinMobileSDK.isReady
isReady == ~isOptedOut /\ initialized /\ sdkTransport

\* DevSkinMobileSDK.identify: isReady, then identifyUser without await.
identify ==
    /\ isReady
    /\ Call("identifyUser", "identify") \notin calls
    /\ \E veto \in BOOLEAN : calls' = Dispatch(Call("identifyUser", "identify"), veto)
    /\ UNCHANGED <<raised, initialized, initializing, transportVars, heatmapVars, lifeVars>>

\* The response to an awaited call.
CallResponse(c, ok) ==
    /\ c \in calls
    /\ calls' = calls \ {c}
    /\ raised' = IF ok THEN raised ELSE raised \cup Rethrown(c)
    /\ IF c.by = "init"
       THEN initialized' = ok /\ initializing' = FALSE
       ELSE UNCHANGED <<initialized, initializing>>
    /\ IF c.by = "init" /\ ok /\ sdkTransport
       THEN initializeCollectors
       ELSE UNCHANGED <<heatmapCollector, collectorFields>>
    /\ UNCHANGED <<transportVars, sdkTransport, destroys, isOptedOut, perfVars, wireVars, orphanTimers, recordingVars, networkVars,
                   heatmapOptions,
                   timeouts, nextTimeout, now, lastInput, recorded, scrolled>>

\* DevSkinMobileSDK.track: isReady, then transport.sendEvent.
track ==
    /\ isReady
    /\ sendEvent

\* DevSkinMobileSDK.trackScroll: isReady, then heatmapCollector.onScroll.
trackScroll(scrollY, contentHeight, viewportHeight) ==
    /\ isReady
    /\ heatmapCollector
    /\ onScroll(scrollY, contentHeight, viewportHeight)

\* What optOut and optIn leave alone: all but isOptedOut.
optFrame ==
    UNCHANGED <<transportVars, sdkVars, heatmapVars, sdkTransport, heatmapCollector, destroys,
                perfVars, wireVars, orphanTimers,
                   recordingVars, networkVars>>

\* DevSkinMobileSDK.optOut
optOut ==
    /\ MicrotasksDrained
    /\ isOptedOut' = TRUE
    /\ optFrame

\* DevSkinMobileSDK.optIn
optIn ==
    /\ MicrotasksDrained
    /\ isOptedOut' = FALSE
    /\ optFrame

\* Mutant of sdkDestroy: the transport destroyed before the collector is stopped.
sdkDestroyTransportFirst ==
    /\ MicrotasksDrained
    /\ \E V \in SUBSET (HookCalls(queue)
                          \cup SendAllVerdicts(touchQueue \o scrollQueue, <<>>)) :
         LET final == IF sdkTransport THEN FlushOp(queue, flights, V)
                      ELSE [queue |-> queue, flights |-> flights]
             stopped == IF heatmapCollector
                        THEN SendAll(touchQueue \o scrollQueue, final.queue, final.flights, V)
                        ELSE final
         IN  /\ queue' = stopped.queue
             /\ flights' = stopped.flights
    /\ IF heatmapCollector
       THEN touchQueue' = <<>> /\ scrollQueue' = <<>> /\ heatmapFlushInterval' = FALSE
       ELSE UNCHANGED <<touchQueue, scrollQueue, heatmapFlushInterval>>
    /\ IF sdkTransport
       THEN flushInterval' = FALSE /\ destroys' = destroys + 1
       ELSE UNCHANGED <<flushInterval, destroys>>
    /\ initialized' = FALSE
    /\ sdkTransport' = FALSE
    /\ UNCHANGED <<errPending, nextId, failures, dropped, calls, raised, initializing,
                   heatmapCollector, heatmapOptions, currentScreen, maxScrollDepth,
                   scrollStartY, touchStartTime, touchStartPoint, longPressTimeout,
                   timeouts, nextTimeout, now, lastInput, recorded, scrolled, isOptedOut,
                   perfVars, wireVars, orphanTimers,
                   recordingVars, networkVars>>

\* DevSkinMobileSDK.destroy(): heatmapCollector?.stop(), transport?.destroy(),
\* then initialized = false and transport = null (performanceCollector.stop()
\* touches no state of the pipeline).
sdkDestroy ==
    /\ MicrotasksDrained
    /\ \E V \in SUBSET (SendAllVerdicts(touchQueue \o scrollQueue, queue)
                          \cup HookCalls(SendAll(touchQueue \o scrollQueue, queue, flights, {}).queue)) :
         LET stopped == IF heatmapCollector
                        THEN SendAll(touchQueue \o scrollQueue, queue, flights, V)
                        ELSE [queue |-> queue, flights |-> flights]
             final == IF sdkTransport
                      THEN FlushOp(stopped.queue, stopped.flights, V)
                      ELSE stopped
         IN  /\ queue' = final.queue
             /\ flights' = final.flights
    /\ IF heatmapCollector
       THEN touchQueue' = <<>> /\ scrollQueue' = <<>> /\ heatmapFlushInterval' = FALSE
       ELSE UNCHANGED <<touchQueue, scrollQueue, heatmapFlushInterval>>
    /\ IF sdkTransport
       THEN flushInterval' = FALSE /\ destroys' = destroys + 1
       ELSE UNCHANGED <<flushInterval, destroys>>
    /\ initialized' = FALSE
    /\ sdkTransport' = FALSE
    /\ UNCHANGED <<errPending, nextId, failures, dropped, calls, raised, initializing,
                   heatmapCollector, heatmapOptions, currentScreen, maxScrollDepth,
                   scrollStartY, touchStartTime, touchStartPoint, longPressTimeout,
                   timeouts, nextTimeout, now, lastInput, recorded, scrolled, isOptedOut,
                   perfVars, wireVars, orphanTimers,
                   recordingVars, networkVars>>

\* ------------------------------------------------- performance collector

\* config.performance of the default configuration.
performance == [trackScreenRenderTime |-> TRUE, slowRenderThreshold |-> 500]

\* The metric object handed to transport.sendPerformanceMetric (sessionId
\* and timestamp left out); `id` stands for the identity of the object.
Metric(id, metricName, value, screenName) ==
    [id |-> id, metricName |-> metricName, value |-> value, screenName |-> screenName]

\* transport.sendPerformanceMetric for each of up to two metrics in turn.
SendMetrics(ms) ==
    /\ nextId' = nextId + Len(ms)
    /\ sentMetrics' = sentMetrics \o
                        [k \in 1..Len(ms) |->
                           Metric(nextId + k - 1, ms[k][1], ms[k][2], ms[k][3])]
    /\ IF ms = <<>>
       THEN UNCHANGED <<queue, flights>>
       ELSE \E V1 \in Verdicts("performance", nextId, queue) :
              LET r1 == EnqueueOp("performance", nextId, queue, flights, V1)
              IN  IF Len(ms) = 1
                  THEN queue' = r1.queue /\ flights' = r1.flights
                  ELSE \E V2 \in Verdicts("performance", nextId + 1, r1.queue) :
                         LET r2 == EnqueueOp("performance", nextId + 1, r1.queue,
                                             r1.flights, V2)
                         IN  queue' = r2.queue /\ flights' = r2.flights

\* What no screen method of the performance collector writes.
perfFrame ==
    UNCHANGED <<flushInterval, errPending, failures, dropped, sdkVars, heatmapVars,
                sdkTransport, heatmapCollector, destroys, isOptedOut, wireVars,
                orphanTimers,
                   recordingVars, networkVars>>

PerfCall(op, screenName) == <<[op |-> op, screenName |-> screenName]>>

startScreenRender(screenName) ==
    /\ MicrotasksDrained
    /\ performance.trackScreenRenderTime
    /\ screenTimings' = [screenTimings EXCEPT
                           ![screenName] = {[startTime |-> now, renderTime |-> <<>>]}]
    /\ lastPerfCall' = PerfCall("startScreenRender", screenName)
    /\ perfFrame
    /\ UNCHANGED <<queue, flights, nextId, sentMetrics>>

\* endScreenRender: the ScreenRender metric, the SlowRender metric of a
\* render above the threshold, then screenTimings.delete(screenName).
endScreenRender(screenName) ==
    /\ MicrotasksDrained
    /\ performance.trackScreenRenderTime
    /\ lastPerfCall' = PerfCall("endScreenRender", screenName)
    /\ IF screenTimings[screenName] # {}
       THEN LET timing == CHOOSE t \in screenTimings[screenName] : TRUE
                renderTime == now - timing.startTime
            IN  /\ SendMetrics(<<<<"ScreenRender", renderTime, screenName>>>> \o
                               (IF renderTime > performance.slowRenderThreshold
                                THEN <<<<"SlowRender", renderTime, screenName>>>>
                                ELSE <<>>))
                /\ screenTimings' = [screenTimings EXCEPT ![screenName] = {}]
       ELSE UNCHANGED <<queue, flights, nextId, sentMetrics, screenTimings>>
    /\ perfFrame

\* timing && timing.renderTime: an entry whose renderTime is set and not 0.
HasRenderTime(screenName) ==
    \E t \in screenTimings[screenName] : t.renderTime # <<>> /\ t.renderTime[1] # 0

markInteractive(screenName) ==
    /\ MicrotasksDrained
    /\ lastPerfCall' = PerfCall("markInteractive", screenName)
    /\ IF HasRenderTime(screenName)
       THEN LET timing == CHOOSE t \in screenTimings[screenName] : TRUE
            IN  SendMetrics(<<<<"TimeToInteractive", now - timing.startTime, screenName>>>>)
       ELSE UNCHANGED <<queue, flights, nextId, sentMetrics>>
    /\ UNCHANGED screenTimings
    /\ perfFrame

\* ---------------------------------------------------- network collector

\* The urls of the transport's requests that are on the wire: one for each
\* group of a flush that awaits its response.
OnTheWire ==
    UNION {{TransportUrl(Endpoint(flights[s].groups[i].type,
                                  Len(flights[s].groups[i].requests[
                                        Len(flights[s].groups[i].requests)]) > 1))
              : i \in {j \in 1..Len(flights[s].groups) :
                         flights[s].groups[j].state = "awaiting"}}
           : s \in 1..Len(flights)}

\* The function interceptFetch installs as global.fetch, from the settling
\* of the original fetch on: a network record for the request unless its
\* url is ignored. The transport's own requests pass through it as the
\* application's do; the response then goes on to the caller.
interceptFetch(url) ==
    /\ MicrotasksDrained
    /\ lastFetch' = <<url>>
    /\ IF shouldIgnoreUrl(url)
       THEN UNCHANGED <<queue, flights, nextId>>
       ELSE Enqueue("network", nextId) /\ nextId' = nextId + 1
    /\ UNCHANGED <<flushInterval, errPending, failures, dropped, sdkVars, heatmapVars,
                   sdkTransport, heatmapCollector, destroys, isOptedOut, perfVars,
                   wireVars, orphanTimers, recordingVars, networkConfig>>

\* --------------------------------------------------- recording collector

\* RecordingCollector.MAX_EVENTS
MAX_EVENTS == 100

\* What no method of the recording collector writes.
recordingFrame ==
    UNCHANGED <<queue, flushInterval, flights, errPending, failures, dropped, sdkVars,
                heatmapVars, sdkTransport, heatmapCollector, destroys, isOptedOut,
                perfVars, wireVars, orphanTimers, networkVars>>

\* RecordingCollector.flush() on the buffer ev, up to its await: the buffer
\* is copied and emptied, and the copy is on the wire.
RecordingFlushOp(ev, fl) ==
    IF ev = <<>> THEN [events |-> ev, flights |-> fl]
    ELSE [events |-> <<>>, flights |-> Append(fl, ev)]

\* checkFlush after the pushes of a record method.
CheckFlush(ev) ==
    LET r == IF Len(ev) >= MAX_EVENTS
             THEN RecordingFlushOp(ev, recordingFlights)
             ELSE [events |-> ev, flights |-> recordingFlights]
    IN  /\ events' = r.events
        /\ recordingFlights' = r.flights

\* RecordingCollector.recordTouch: one event, then checkFlush.
recordingRecordTouch ==
    /\ MicrotasksDrained
    /\ nextId' = nextId + 1
    /\ CheckFlush(Append(events, nextId))
    /\ recordingFrame

\* RecordingCollector.recordScreenChange: the FullSnapshot event, the Meta
\* event, then checkFlush.
recordScreenChange ==
    /\ MicrotasksDrained
    /\ nextId' = nextId + 2
    /\ CheckFlush(events \o <<nextId, nextId + 1>>)
    /\ recordingFrame

\* RecordingCollector.flush(), called by the interval timer or by the
\* application.
recordingFlush ==
    /\ MicrotasksDrained
    /\ events # <<>>
    /\ LET r == RecordingFlushOp(events, recordingFlights)
       IN  /\ events' = r.events
           /\ recordingFlights' = r.flights
    /\ UNCHANGED nextId
    /\ recordingFrame

\* The continuation of flush() after `await sendRecordingEvents`: nothing
\* more on success, events.unshift(...eventsToSend) in the catch block.
RecordingResponse(i, ok) ==
    /\ MicrotasksDrained
    /\ i \in 1..Len(recordingFlights)
    /\ recordingFlights' = RemoveAt(recordingFlights, i)
    /\ events' = IF ok THEN events ELSE recordingFlights[i] \o events
    /\ UNCHANGED nextId
    /\ recordingFrame

\* --------------------------------------------------------- specifications

\* The bounds of a run: a record is created while nextId <= n, a response
\* reports a failure while failures < f.
Fresh(n) == nextId <= n

MayFail(ok, f) == ok \/ failures < f

Next ==
    \/ Fresh(MaxNew) /\ sendEvent
    \/ Fresh(MaxNew) /\ sendScreenView
    \/ Fresh(MaxNew) /\ sendNetworkRequest
    \/ Fresh(MaxNew) /\ sendPerformanceMetric
    \/ Fresh(MaxNew) /\ sendTouchData
    \/ Fresh(MaxNew) /\ sendScrollData
    \/ Fresh(MaxNew) /\ sendError
    \/ \E d \in 1..MaxNew, ok \in BOOLEAN :
         MayFail(ok, MaxFailures) /\ ErrorResponse(d, ok)
    \/ flush
    \/ PeriodicFlush
    \/ \E s \in 1..MaxNew, i \in 1..MaxNew, ok \in BOOLEAN :
         MayFail(ok, MaxFailures) /\ GroupResponse(s, i, ok)
    \/ \E s \in 1..MaxNew : FlushReturn(s)

Spec == Init /\ [][Next]_vars

\* The retry cycle: a batch category, a one-by-one category, their flushes.
NextRetry ==
    \/ Fresh(MaxNewRetry) /\ sendEvent
    \/ Fresh(MaxNewRetry) /\ sendNetworkRequest
    \/ flush
    \/ PeriodicFlush
    \/ \E s \in 1..MaxNewRetry, i \in 1..MaxNewRetry, ok \in BOOLEAN :
         MayFail(ok, MaxFailuresRetry) /\ GroupResponse(s, i, ok)
    \/ \E s \in 1..MaxNewRetry : FlushReturn(s)

SpecRetry == Init /\ [][NextRetry]_vars

\* The periodic flush alone: records arrive for a while, every request is
\* answered (with success or failure), the flush that has settled returns,
\* and the interval timer keeps firing.
NextLive ==
    \/ Fresh(MaxNewLive) /\ sendEvent
    \/ Fresh(MaxNewLive) /\ sendNetworkRequest
    \/ PeriodicFlush
    \/ \E s \in 1..MaxNewLive, i \in 1..MaxNewLive, ok \in BOOLEAN :
         MayFail(ok, MaxFailuresLive) /\ GroupResponse(s, i, ok)
    \/ \E s \in 1..MaxNewLive : FlushReturn(s)

SpecLive ==
    /\ Init
    /\ [][NextLive]_vars
    /\ WF_vars(PeriodicFlush)
    /\ \A s \in 1..MaxNewLive, i \in 1..MaxNewLive :
         WF_vars(\E ok \in BOOLEAN : MayFail(ok, MaxFailuresLive) /\ GroupResponse(s, i, ok))
    /\ \A s \in 1..MaxNewLive : WF_vars(FlushReturn(s))

\* The watermark: the queue holds PreloadLen events when the run starts.
InitFull == InitWith(Preload)

NextFull ==
    \/ Fresh(MaxNewFull) /\ sendEvent
    \/ Fresh(MaxNewFull) /\ sendScreenView
    \/ Fresh(MaxNewFull) /\ sendNetworkRequest
    \/ Fresh(MaxNewFull) /\ sendPerformanceMetric
    \/ Fresh(MaxNewFull) /\ sendTouchData
    \/ Fresh(MaxNewFull) /\ sendScrollData
    \/ Fresh(MaxNewFull) /\ sendError
    \/ \E d \in 1..MaxNewFull, ok \in BOOLEAN :
         MayFail(ok, MaxFailuresFull) /\ ErrorResponse(d, ok)
    \/ flush
    \/ PeriodicFlush
    \/ \E s \in 1..(MaxNewFull + 1), i \in 1..(MaxNewFull + 1), ok \in BOOLEAN :
         MayFail(ok, MaxFailuresFull) /\ GroupResponse(s, i, ok)
    \/ \E s \in 1..(MaxNewFull + 1) : FlushReturn(s)

SpecFull == InitFull /\ [][NextFull]_vars

\* The awaited calls of the transport and the SDK operations that make them.
NextCalls ==
    \/ \E op \in DirectOps : TransportCall(op)
    \/ orphanTimers < MaxOrphansCalls /\ init
    \/ identify
    \/ \E c \in calls, ok \in BOOLEAN : CallResponse(c, ok)

SpecCalls == Init /\ [][NextCalls]_vars

\* The life of one MobileTransport: records, flushes, destroy() calls.
NextLife ==
    \/ Fresh(MaxNewLife) /\ sendEvent
    \/ Fresh(MaxNewLife) /\ sendNetworkRequest
    \/ flush
    \/ PeriodicFlush
    \/ destroys < MaxDestroys /\ destroy
    \/ \E s \in 1..(MaxNewLife + 1), i \in 1..MaxNewLife, ok \in BOOLEAN :
         MayFail(ok, MaxFailuresLife) /\ GroupResponse(s, i, ok)
    \/ \E s \in 1..(MaxNewLife + 1) : FlushReturn(s)

SpecLife == Init /\ [][NextLife]_vars

\* The SDK after an init that succeeded: the transport and the collectors
\* are constructed and their interval timers run.
InitReadyWith(options) ==
    /\ queue = <<>>
    /\ flushInterval = TRUE
    /\ flights = <<>>
    /\ errPending = {}
    /\ nextId = 1
    /\ failures = 0
    /\ dropped = {}
    /\ calls = {}
    /\ raised = {}
    /\ initialized = TRUE
    /\ initializing = FALSE
    /\ sdkTransport = TRUE
    /\ heatmapCollector = TRUE
    /\ isOptedOut = FALSE
    /\ screenTimings = [s \in ScreenNames |-> {}]
    /\ sentMetrics = <<>>
    /\ lastPerfCall = <<>>
    /\ delivered = {}
    /\ failedSends = {}
    /\ orphanTimers = 0
    /\ events = <<>>
    /\ recordingFlights = <<>>
    /\ networkConfig = DefaultNetworkConfig
    /\ lastFetch = <<>>
    /\ destroys = 0
    /\ NewHeatmapCollector(options, TRUE)

InitReady == InitReadyWith(DefaultHeatmapOptions)

\* A touch is armed while fewer than n timeouts were set.
Armed(n) == nextTimeout <= n

\* Teardown: records in the queue and in the classifier's buffers, a touch
\* that may be held until its long-press timeout is due, the interval timers,
\* and DevSkinMobileSDK.destroy(); every request is answered with success.
NextTeardown ==
    \/ Fresh(MaxNewTeardown) /\ sendEvent
    \/ Armed(MaxTouchesTeardown) /\ onTouchStart(0, 0)
    \/ Fresh(MaxNewTeardown) /\ onTouchEnd(3, 4)
    \/ Fresh(MaxNewTeardown) /\ \E t \in timeouts : LongPressTimer(t)
    \/ \E t \in timeouts : now < t.due /\ Tick(t.due - now)
    \/ Fresh(MaxNewTeardown) /\ onScroll(80, 200, 100)
    \/ HeatmapPeriodicFlush
    \/ PeriodicFlush
    \/ sdkDestroy
    \/ \E s \in 1..(MaxNewTeardown + 1), i \in 1..2 : GroupResponse(s, i, TRUE)
    \/ \E s \in 1..(MaxNewTeardown + 1) : FlushReturn(s)

SpecTeardown == InitReady /\ [][NextTeardown]_vars

\* touchSampling of the configurations SpecGesture starts from, in percent.
Samplings == {50, 100}

InitGesture ==
    \E p \in Samplings : InitReadyWith([DefaultHeatmapOptions EXCEPT !.touchSampling = p])

\* The points of the touch-downs and of the touch-ups.
Downs == {<<0, 0>>, <<100, 100>>}

Ups ==
    {<<0, 0>>, <<3, 4>>, <<10, 0>>, <<20, 0>>, <<30, 40>>, <<50, 0>>, <<100, 0>>,
     <<150, 0>>, <<0, 100>>, <<100, 100>>, <<103, 104>>, <<200, 100>>, <<100, 200>>,
     <<200, 200>>, <<250, 100>>}

\* The milliseconds between two events.
Ticks == {50, 200, 500}

\* One gesture classifier: touch-downs, touch-ups, the long-press timeouts
\* and the passing of time while a touch is held or a timeout is pending
\* (the classifier reads the clock only as the time since a touch-down).
NextGesture ==
    \/ Armed(MaxTouchesGesture) /\ \E p \in Downs : onTouchStart(p[1], p[2])
    \/ \E p \in Ups : onTouchEnd(p[1], p[2])
    \/ \E t \in timeouts : LongPressTimer(t)
    \/ \E dt \in Ticks :
         /\ now + dt <= MaxClockGesture
         /\ touchStartPoint # {} \/ timeouts # {}
         /\ Tick(dt)

SpecGesture == InitGesture /\ [][NextGesture]_vars

PreloadBuffer == MAX_QUEUE_SIZE - HeadroomBuffer

\* The classifier after PreloadBuffer taps at (0,0) within one flush period,
\* or after PreloadBuffer times setCurrentScreen("Home") and
\* onScroll(30, 200, 100): one buffer is HeadroomBuffer records from full.
InitBuffer ==
    /\ queue = <<>>
    /\ flushInterval = TRUE
    /\ flights = <<>>
    /\ errPending = {}
    /\ nextId = 1
    /\ failures = 0
    /\ dropped = {}
    /\ calls = {}
    /\ raised = {}
    /\ initialized = TRUE
    /\ initializing = FALSE
    /\ sdkTransport = TRUE
    /\ heatmapCollector = TRUE
    /\ isOptedOut = FALSE
    /\ screenTimings = [s \in ScreenNames |-> {}]
    /\ sentMetrics = <<>>
    /\ lastPerfCall = <<>>
    /\ delivered = {}
    /\ failedSends = {}
    /\ orphanTimers = 0
    /\ events = <<>>
    /\ recordingFlights = <<>>
    /\ networkConfig = DefaultNetworkConfig
    /\ lastFetch = <<>>
    /\ destroys = 0
    /\ heatmapOptions = DefaultHeatmapOptions
    /\ touchStartTime = 0
    /\ touchStartPoint = {}
    /\ longPressTimeout = 0
    /\ heatmapFlushInterval = TRUE
    /\ timeouts = {}
    /\ nextTimeout = 1
    /\ now = 0
    /\ \/ /\ touchQueue = [k \in 1..PreloadBuffer |->
                              [id |-> k - PreloadBuffer - 1, type |-> "tap", x |-> 0, y |-> 0,
                               screenName |-> "", extra |-> [duration |-> 50]]]
          /\ recorded = [k \in 1..PreloadBuffer |->
                            [type |-> "tap", x |-> 0, y |-> 0, extra |-> [duration |-> 50]]]
          /\ scrollQueue = <<>>
          /\ currentScreen = ""
          /\ maxScrollDepth = [s \in ScreenNames |-> 0]
          /\ scrolled = [s \in ScreenNames |-> <<>>]
          /\ scrollStartY = 0
          /\ lastInput = <<[op |-> "onTouchEnd", x |-> 0, y |-> 0]>>
       \/ /\ touchQueue = <<>>
          /\ recorded = <<>>
          /\ scrollQueue = [k \in 1..PreloadBuffer |->
                               [id |-> k - PreloadBuffer - 1, screenName |-> "Home",
                                scrollDepth |-> 30, maxScrollDepth |-> 30,
                                contentHeight |-> 200, viewportHeight |-> 100,
                                direction |-> IF k = 1 THEN "down" ELSE "up"]]
          /\ currentScreen = "Home"
          /\ maxScrollDepth = [s \in ScreenNames |-> IF s = "Home" THEN 30 ELSE 0]
          /\ scrolled = [s \in ScreenNames |-> IF s = "Home" THEN <<30>> ELSE <<>>]
          /\ scrollStartY = 30
          /\ lastInput = <<[op |-> "onScroll", scrollY |-> 30, contentHeight |-> 200,
                            viewportHeight |-> 100, scrollDepth |-> 30]>>

\* The buffers of the classifier near their bound: pinches, taps and scrolls,
\* the classifier's periodic flush, and the transport's requests, each
\* answered with success.
NextBuffer ==
    \/ Fresh(MaxNewBuffer) /\ onPinch(2, 10, 10)
    \/ Armed(MaxTouchesBuffer) /\ onTouchStart(0, 0)
    \/ Fresh(MaxNewBuffer) /\ onTouchEnd(3, 4)
    \/ Fresh(MaxNewBuffer) /\ \E scrollY \in {30, 80} : onScroll(scrollY, 200, 100)
    \/ setCurrentScreen("Detail")
    \/ HeatmapPeriodicFlush
    \/ \E s \in 1..(MaxNewBuffer + 1) : GroupResponse(s, 1, TRUE)
    \/ \E s \in 1..(MaxNewBuffer + 1) : FlushReturn(s)

SpecBuffer == InitBuffer /\ [][NextBuffer]_vars

\* The arguments <<scrollY, contentHeight, viewportHeight>> of the onScroll
\* calls: offsets above the top, at the top, within the content and beyond
\* its end, and contents as tall as and shorter than the viewport.
ScrollInputs ==
    {<<-50, 200, 100>>, <<0, 200, 100>>, <<29, 300, 100>>, <<30, 200, 100>>,
     <<80, 200, 100>>, <<300, 200, 100>>, <<30, 100, 100>>, <<30, 100, 200>>}

\* Scrolling: onScroll calls on the screens the application activates with
\* setCurrentScreen, the scroll records staying in the collector's buffer.
NextScroll ==
    \/ Fresh(MaxNewScroll) /\ \E in \in ScrollInputs : onScroll(in[1], in[2], in[3])
    \/ \E screenName \in ScreenNames : setCurrentScreen(screenName)

SpecScroll == InitReady /\ [][NextScroll]_vars

\* The arguments <<scale, x, y>> of the onPinch calls.
Pinches == {<<2, 10, 20>>, <<3, 0, 0>>}

\* Pinches during and between single-pointer gestures.
NextPinch ==
    \/ Armed(MaxTouchesPinch) /\ onTouchStart(0, 0)
    \/ \E p \in {<<3, 4>>, <<100, 0>>} : onTouchEnd(p[1], p[2])
    \/ \E t \in timeouts : LongPressTimer(t)
    \/ /\ now + 500 <= MaxClockPinch
       /\ touchStartPoint # {} \/ timeouts # {}
       /\ Tick(500)
    \/ Len(recorded) < MaxRecordedPinch /\ \E p \in Pinches : onPinch(p[1], p[2], p[3])

SpecPinch == InitGesture /\ [][NextPinch]_vars

\* Touch-downs that may follow one another with no touch-up between them,
\* touch-ups, the long-press timeouts and the passing of time.
NextTouches ==
    \/ Armed(MaxTouchesTouches) /\ \E p \in Downs : onTouchStart(p[1], p[2])
    \/ \E p \in {<<3, 4>>, <<100, 0>>} : onTouchEnd(p[1], p[2])
    \/ \E t \in timeouts : LongPressTimer(t)
    \/ \E dt \in {200, 500} :
         /\ now + dt <= MaxClockTouches
         /\ touchStartPoint # {} \/ timeouts # {}
         /\ Tick(dt)

SpecTouches == InitGesture /\ [][NextTouches]_vars

\* The screens whose render the application reports.
PerfScreens == {"Home", "Detail"}

\* The screen methods of the performance collector and the passing of time;
\* the metrics stay in the transport's queue.
NextPerf ==
    \/ \E screenName \in PerfScreens : startScreenRender(screenName)
    \/ Fresh(MaxNewPerf) /\ \E screenName \in PerfScreens : endScreenRender(screenName)
    \/ Fresh(MaxNewPerf) /\ \E screenName \in PerfScreens : markInteractive(screenName)
    \/ \E dt \in {200, 600} : now + dt <= MaxClockPerf /\ Tick(dt)

SpecPerf == InitReady /\ [][NextPerf]_vars

\* The life of one SDK instance: init, the response to its session start
\* (a failure leaves the SDK uninitialized and init can be called again),
\* destroy, and between them the tracking of events and the transport's
\* timer and requests.
NextInit ==
    \/ orphanTimers < MaxOrphansInit /\ init
    \/ \E c \in calls, ok \in BOOLEAN : CallResponse(c, ok)
    \/ destroys < MaxDestroysInit /\ sdkDestroy
    \/ Fresh(MaxNewInit) /\ track
    \/ PeriodicFlush
    \/ \E s \in 1..(MaxNewInit + 1) : GroupResponse(s, 1, TRUE)
    \/ \E s \in 1..(MaxNewInit + 1) : FlushReturn(s)

SpecInit == Init /\ [][NextInit]_vars

\* A collector whose configuration has heatmapOptions.enabled false, with
\* every combination of the three tracking flags: start() has returned
\* without setting the interval timer.
InitDisabled ==
    \E touches \in BOOLEAN, scrolls \in BOOLEAN, gestures \in BOOLEAN :
        InitReadyWith([enabled |-> FALSE, trackTouches |-> touches,
                       trackScrolls |-> scrolls, trackGestures |-> gestures,
                       touchSampling |-> 100])

\* The input methods of the collector.
NextDisabled ==
    \/ Armed(MaxTouchesDisabled) /\ onTouchStart(0, 0)
    \/ Len(recorded) < MaxRecordedDisabled /\ \E p \in {<<3, 4>>, <<100, 0>>} : onTouchEnd(p[1], p[2])
    \/ Len(recorded) < MaxRecordedDisabled /\ \E t \in timeouts : LongPressTimer(t)
    \/ /\ now + 500 <= MaxClockDisabled
       /\ touchStartPoint # {} \/ timeouts # {}
       /\ Tick(500)
    \/ Len(recorded) < MaxRecordedDisabled /\ onPinch(2, 10, 20)
    \/ Len(recorded) < MaxRecordedDisabled /\ recordElementTouch("button", 10, 20)
    \/ Fresh(MaxNewDisabled) /\ \E scrollY \in {30, 80} : onScroll(scrollY, 200, 100)

SpecDisabled == InitDisabled /\ [][NextDisabled]_vars

\* The recording buffer when the run starts: empty, or HeadroomRecording
\* events below MAX_EVENTS, in recording order.
PreloadRecording == MAX_EVENTS - HeadroomRecording

InitRecording ==
    /\ queue = <<>>
    /\ flushInterval = TRUE
    /\ flights = <<>>
    /\ errPending = {}
    /\ nextId = 1
    /\ failures = 0
    /\ dropped = {}
    /\ calls = {}
    /\ raised = {}
    /\ initialized = TRUE
    /\ initializing = FALSE
    /\ sdkTransport = TRUE
    /\ heatmapCollector = TRUE
    /\ isOptedOut = FALSE
    /\ screenTimings = [s \in ScreenNames |-> {}]
    /\ sentMetrics = <<>>
    /\ lastPerfCall = <<>>
    /\ delivered = {}
    /\ failedSends = {}
    /\ orphanTimers = 0
    /\ destroys = 0
    /\ NewHeatmapCollector(DefaultHeatmapOptions, TRUE)
    /\ recordingFlights = <<>>
    /\ networkConfig = DefaultNetworkConfig
    /\ lastFetch = <<>>
    /\ \E n \in {0, PreloadRecording} : events = [k \in 1..n |-> k - n - 1]

\* Recording: the record methods, flushes by timer or by call, and the
\* responses to the flushes on the wire, in any order.
NextRecording ==
    \/ Fresh(MaxNewRecording) /\ recordingRecordTouch
    \/ Fresh(MaxNewRecording) /\ recordScreenChange
    \/ recordingFlush
    \/ \E i \in 1..(MaxNewRecording + 2), ok \in BOOLEAN : RecordingResponse(i, ok)

SpecRecording == InitRecording /\ [][NextRecording]_vars

\* The configurations of apiUrl and ignoreUrls.
NetworkConfigs ==
    {[apiUrl |-> a, ignoreUrls |-> p] :
        a \in {<<>>, DefaultApiUrl, <<"https://", "collect.example">>},
        p \in {{}, {<<"cdn.example">>}}}

\* The urls the application fetches.
AppUrls ==
    {<<"https://", "shop.example", "/cart">>, <<"https://", "cdn.example", "/logo.png">>,
     <<"https://", "api-monitoring.devskin.com", "/status">>}

InitNetwork ==
    /\ queue = <<>>
    /\ flushInterval = TRUE
    /\ flights = <<>>
    /\ errPending = {}
    /\ nextId = 1
    /\ failures = 0
    /\ dropped = {}
    /\ calls = {}
    /\ raised = {}
    /\ initialized = TRUE
    /\ initializing = FALSE
    /\ sdkTransport = TRUE
    /\ heatmapCollector = TRUE
    /\ isOptedOut = FALSE
    /\ screenTimings = [s \in ScreenNames |-> {}]
    /\ sentMetrics = <<>>
    /\ lastPerfCall = <<>>
    /\ delivered = {}
    /\ failedSends = {}
    /\ orphanTimers = 0
    /\ destroys = 0
    /\ NewHeatmapCollector(DefaultHeatmapOptions, TRUE)
    /\ events = <<>>
    /\ recordingFlights = <<>>
    /\ networkConfig \in NetworkConfigs
    /\ lastFetch = <<>>

\* The patched fetch seeing the application's requests and the requests of
\* the transport that are on the wire, while events and touch records are
\* tracked and flushed.
NextNetwork ==
    \/ Fresh(MaxNewNetwork) /\ sendEvent
    \/ Fresh(MaxNewNetwork) /\ sendTouchData
    \/ Fresh(MaxNewNetwork) /\ \E url \in AppUrls : interceptFetch(url)
    \/ \E url \in OnTheWire : interceptFetch(url)
    \/ PeriodicFlush
    \/ \E s \in 1..(MaxNewNetwork + 1), i \in 1..3 : GroupResponse(s, i, TRUE)
    \/ \E s \in 1..(MaxNewNetwork + 1) : FlushReturn(s)

SpecNetwork == InitNetwork /\ [][NextNetwork]_vars

\* Opting out and in: the tracking calls of an initialized SDK, optOut and
\* optIn, the interval timers of the transport and of the collector, and
\* the transport's requests, each answered with success.
NextOptOut ==
    \/ Fresh(MaxNewOptOut) /\ track
    \/ Fresh(MaxNewOptOut) /\ \E scrollY \in {30, 80} : trackScroll(scrollY, 200, 100)
    \/ optOut
    \/ optIn
    \/ PeriodicFlush
    \/ HeatmapPeriodicFlush
    \/ \E s \in 1..(MaxNewOptOut + 1), i \in 1..2 : GroupResponse(s, i, TRUE)
    \/ \E s \in 1..(MaxNewOptOut + 1) : FlushReturn(s)

SpecOptOut == InitReady /\ [][NextOptOut]_vars

\* ------------------------------------------------------------------ claims

\* The data held by a sequence of items.
DataOf(items) == {items[k].data : k \in 1..Len(items)}

Held == DataOf(queue)

HeldNext == DataOf(queue')

\* The data held by the items of the flushes that have not returned.
Taken(fl) == UNION {DataOf(fl[s].items) : s \in 1..Len(fl)}

\* How many entries of a sequence of items carry data d.
Copies(items, d) == Cardinality({k \in 1..Len(items) : items[k].data = d})

\* How many requests of a flight carry data d.
Carried(f, d) ==
    LET Hits(g) == Cardinality({k \in 1..Len(g.requests) : d \in Range(g.requests[k])})
        RECURSIVE Sum(_)
        Sum(n) == IF n = 0 THEN 0 ELSE Hits(f.groups[n]) + Sum(n - 1)
    IN  Sum(Len(f.groups))

\* This step runs the catch block of group i of flight s.
GroupFails(s, i) ==
    /\ s \in 1..Len(flights)
    /\ Len(flights') = Len(flights)
    /\ i \in 1..Len(flights[s].groups)
    /\ ~flights[s].groups[i].caught
    /\ flights'[s].groups[i].caught

\* This step starts a flush: it appends a flight.
FlushStarts == Len(flights') = Len(flights) + 1

\* This step is the enqueue call that brings data d into the transport.
Enqueues(d) ==
    /\ d \notin Held \cup Taken(flights)
    /\ d \in HeldNext \cup Taken(flights')

\* C1: every queue entry has retryCount in 0..3; an entry put back in the
\* queue never has a smaller retryCount than the copy a flush took; an entry
\* at retryCount 3 whose group send fails is not put back, and is never in
\* the queue again.
C1_RetryCountCapped ==
    /\ [](\A k \in 1..Len(queue) :
            /\ queue[k].retryCount \in 0..maxRetries
            /\ queue[k].data \notin dropped)
    /\ [][\A k \in 1..Len(queue') :
            /\ \A j \in 1..Len(queue) :
                 queue[j].data = queue'[k].data
                    => queue'[k].retryCount >= queue[j].retryCount
            /\ \A s \in 1..Len(flights) : \A j \in 1..Len(flights[s].items) :
                 flights[s].items[j].data = queue'[k].data
                    => queue'[k].retryCount >= flights[s].items[j].retryCount]_vars
    /\ [][\A s \in 1..Len(flights) : \A i \in 1..Len(flights[s].groups) :
            GroupFails(s, i) =>
                \A j \in 1..Len(flights[s].items) :
                    LET it == flights[s].items[j]
                    IN  (it.type = flights[s].groups[i].type /\ it.retryCount = maxRetries)
                            => it.data \notin HeldNext]_vars

\* C1 witness: the catch block has just met an entry at retryCount 3 and
\* left it out of the queue.
C1_Witness ==
    \E s \in 1..Len(flights) : \E i \in 1..Len(flights[s].groups) :
        /\ flights[s].groups[i].caught
        /\ \E d \in Range(flights[s].groups[i].dataArray) :
             /\ Find(flights[s].items, d).retryCount = maxRetries
             /\ d \in dropped
             /\ d \notin Held

\* C2: an enqueue call that brings the queue to maxQueueSize entries or
\* more starts a flush inside the call: the flush takes the whole queue, the
\* new entry included, and every enqueue call returns with fewer than
\* maxQueueSize entries in the queue.
C2_WatermarkFlushInEnqueue ==
    [][\A d \in HeldNext \cup Taken(flights') :
        Enqueues(d) =>
            /\ Len(queue') < maxQueueSize
            /\ Len(queue) + 1 >= maxQueueSize =>
                 /\ FlushStarts
                 /\ queue' = <<>>
                 /\ SubSeq(flights'[Len(flights')].items, 1, Len(queue)) = queue
                 /\ flights'[Len(flights')].items[Len(queue) + 1].data = d]_vars

\* C2 witness: the fallback enqueue of sendError was the entry that filled
\* the queue, and the flush started by it holds all maxQueueSize entries.
C2_Witness ==
    /\ queue = <<>>
    /\ \E s \in 1..Len(flights) :
         LET items == flights[s].items
         IN  /\ Len(items) = maxQueueSize
             /\ \A k \in 1..Len(items) : items[k].retryCount = 0
             /\ items[Len(items)].type = "error"

\* beforeSend refused no payload of this flight.
NoVeto(f) == \A i \in 1..Len(f.groups) : f.groups[i].vetoed = {}

\* C3 (as claimed): when a flush has settled, its requests together carry
\* every record the flush took from the queue exactly once; stated for the
\* flushes whose payloads beforeSend let through.
C3_EveryRecordSentOnce ==
    \A s \in 1..Len(flights) :
        (AllSettled(flights[s].groups) /\ NoVeto(flights[s]))
            => \A d \in DataOf(flights[s].items) : Carried(flights[s], d) = 1

\* C4 (as claimed): a request of an event group of more than one entry
\* carries the whole group, and a request of any other group carries one entry.
C4_OnlyEventsBatched ==
    \A s \in 1..Len(flights) : \A i \in 1..Len(flights[s].groups) :
        LET g == flights[s].groups[i]
        IN  \A k \in 1..Len(g.requests) :
                IF g.type = "event" /\ Len(g.dataArray) > 1
                THEN g.requests[k] = g.dataArray
                ELSE Len(g.requests[k]) = 1

\* The requests of a group sent one by one: one entry each, in dataArray
\* order, none twice.
OneByOne(g) ==
    /\ \A k \in 1..Len(g.requests) :
         Len(g.requests[k]) = 1 /\ g.requests[k][1] \in Range(g.dataArray)
    /\ \A k, l \in 1..Len(g.requests) :
         k < l => \E a, b \in 1..Len(g.dataArray) :
                    a < b /\ g.dataArray[a] = g.requests[k][1]
                          /\ g.dataArray[b] = g.requests[l][1]

\* The requests of a group sent as a batch: at most one, with the whole group.
OneBatch(g) ==
    /\ Len(g.requests) <= 1
    /\ \A k \in 1..Len(g.requests) : g.requests[k] = g.dataArray

\* C4 (amended): an event group of more than one entry and a heatmap group
\* of any size go out as one batch request carrying the whole group; the
\* groups of every other category (and a single event) go out one entry per
\* request, in queue order.
C4_EventsAndHeatmapsBatched ==
    \A s \in 1..Len(flights) : \A i \in 1..Len(flights[s].groups) :
        LET g == flights[s].groups[i]
        IN  IF (g.type = "event" /\ Len(g.dataArray) > 1) \/ g.type = "heatmap"
            THEN OneBatch(g)
            ELSE OneByOne(g)

\* C4 witness: a flush holds a heatmap group of two entries that went out
\* as one request.
C4_Witness ==
    \E s \in 1..Len(flights) : \E i \in 1..Len(flights[s].groups) :
        LET g == flights[s].groups[i]
        IN  /\ g.type = "heatmap"
            /\ Len(g.dataArray) = 2
            /\ g.requests = <<g.dataArray>>

\* C5: when the catch block of a group runs, every entry of that group with
\* retryCount below 3 is in the queue exactly once afterwards, with its
\* retryCount increased by exactly 1, and no entry of another group of the
\* same flush enters the queue.
C5_FailedGroupRequeuedOnce ==
    [][\A s \in 1..Len(flights) : \A i \in 1..Len(flights[s].groups) :
        GroupFails(s, i) =>
            /\ \A j \in 1..Len(flights[s].items) :
                 LET it == flights[s].items[j]
                 IN  IF it.type = flights[s].groups[i].type
                     THEN it.retryCount < maxRetries =>
                            /\ Copies(queue, it.data) = 0
                            /\ Copies(queue', it.data) = 1
                            /\ \E k \in 1..Len(queue') :
                                 queue'[k] = [it EXCEPT !.retryCount = it.retryCount + 1]
                     ELSE Copies(queue', it.data) = Copies(queue, it.data)
            /\ Len(queue') >= Len(queue)
            /\ SubSeq(queue', 1, Len(queue)) = queue]_vars

\* C5 witness: in one flush the network group has failed and is back in the
\* queue with retryCount 1, while the event group of the same flush has
\* succeeded and is not in the queue.
C5_Witness ==
    \E s \in 1..Len(flights) : \E i, j \in 1..Len(flights[s].groups) :
        LET g == flights[s].groups[i]
            h == flights[s].groups[j]
        IN  /\ g.caught
            /\ \A d \in Range(g.dataArray) :
                 \E k \in 1..Len(queue) : queue[k].data = d /\ queue[k].retryCount = 1
            /\ h.state = "done" /\ ~h.caught /\ h.requests # <<>>
            /\ Range(h.dataArray) \cap Held = {}

\* C6 (as claimed): an entry whose payload beforeSend refused is dropped: it
\* is not in the queue again.
C6_VetoedEntryDropped ==
    \A s \in 1..Len(flights) : \A i \in 1..Len(flights[s].groups) :
        flights[s].groups[i].vetoed \cap Held = {}

\* C7: while the direct send of an error record is on the wire the record
\* is not in the transport; when that send settles the record is enqueued if
\* and only if the send failed, as an 'error' entry with retryCount 0; and an
\* 'error' entry enters the transport in no other way.
C7_ErrorQueuedIffDirectSendFails ==
    /\ [](errPending \cap (Held \cup Taken(flights)) = {})
    /\ [][\A d \in errPending \ errPending' :
            /\ Enqueues(d) <=> failures' = failures + 1
            /\ Enqueues(d) =>
                 \/ QueuedItem("error", d, 0) \in Range(queue')
                 \/ /\ FlushStarts
                    /\ QueuedItem("error", d, 0) \in Range(flights'[Len(flights')].items)]_vars
    /\ [][\A k \in 1..Len(queue') :
            (queue'[k].type = "error" /\ Enqueues(queue'[k].data))
                => queue'[k].data \in errPending \ errPending']_vars

\* C7 witness: the direct send of an error failed and the record is in the
\* queue as an 'error' entry with retryCount 0.
C7_Witness ==
    /\ failures = 1
    /\ \E k \in 1..Len(queue) :
         /\ queue[k].type = "error"
         /\ queue[k].retryCount = 0
         /\ queue[k].data \notin errPending

\* C8: flush() returns only when every group function of that flush has
\* settled, whatever the responses were, and no failed send makes an
\* operation raise to its caller: the throw ends in the try of the group
\* function or in the catch callback of sendError.
C8_FlushSettlesWithoutRaising ==
    /\ [](raised = {})
    /\ [][Len(flights') < Len(flights) =>
            \E s \in 1..Len(flights) :
                /\ flights' = RemoveAt(flights, s)
                /\ \A i \in 1..Len(flights[s].groups) :
                     flights[s].groups[i].state = "done"]_vars

\* C8 witness: a flush is about to return after one of its groups failed and
\* another of its groups was answered with success.
C8_Witness ==
    \E s \in 1..Len(flights) : \E i, j \in 1..Len(flights[s].groups) :
        /\ \A k \in 1..Len(flights[s].groups) : flights[s].groups[k].state = "done"
        /\ flights[s].groups[i].caught
        /\ ~flights[s].groups[j].caught
        /\ flights[s].groups[j].requests # <<>>
        /\ raised = {}

\* C9 (as claimed): no public operation rejects to its caller when the
\* network send fails.
C9_NoOperationRejects == raised = {}

\* C10: a flush takes every entry that is in the queue when it starts and
\* leaves none of them in the queue; the items and the requests of a flush
\* in progress never hold a record enqueued after it started.
C10_FlushTakesSnapshot ==
    /\ [][FlushStarts =>
            LET f == flights'[Len(flights')]
            IN  /\ Held \subseteq DataOf(f.items)
                /\ HeldNext \cap DataOf(f.items) = {}
                /\ SubSeq(f.items, 1, Len(queue)) = queue]_vars
    /\ [][\A s \in 1..Len(flights) :
            Len(flights') >= Len(flights) =>
                /\ flights'[s].items = flights[s].items
                /\ \A i \in 1..Len(flights'[s].groups) :
                     \A k \in 1..Len(flights'[s].groups[i].requests) :
                        Range(flights'[s].groups[i].requests[k])
                            \subseteq DataOf(flights[s].items)]_vars

\* C10 witness: a flush is awaiting the network and the queue holds a record
\* that was enqueued after the flush took its items.
C10_Witness ==
    \E s \in 1..Len(flights) : \E k \in 1..Len(queue) :
        /\ ~AllSettled(flights[s].groups)
        /\ queue[k].retryCount = 0
        /\ \A d \in DataOf(flights[s].items) : queue[k].data > d

\* The records of category t that wait for a send: the entries of the queue,
\* and the data the loop of a running group function has not reached yet.
Waiting(q, fl, t) ==
    {q[k].data : k \in {j \in 1..Len(q) : q[j].type = t}}
        \cup UNION { UNION { IF fl[s].groups[i].type = t /\ fl[s].groups[i].state = "awaiting"
                             THEN {fl[s].groups[i].dataArray[k] :
                                     k \in (fl[s].groups[i].at + 1)..Len(fl[s].groups[i].dataArray)}
                             ELSE {}
                           : i \in 1..Len(fl[s].groups) }
                    : s \in 1..Len(fl) }

\* The requests this step hands to fetch, as <<category, payload>>.
Issued ==
    IF Len(flights') < Len(flights) THEN {}
    ELSE UNION { UNION { LET g == flights'[s].groups[i]
                             old == IF s > Len(flights) THEN 0
                                    ELSE Len(flights[s].groups[i].requests)
                         IN  {<<g.type, g.requests[k]>> : k \in (old + 1)..Len(g.requests)}
                       : i \in 1..Len(flights'[s].groups) }
               : s \in 1..Len(flights') }

\* C11 (as claimed): within a category other than 'error' (whose ids follow
\* the sendError calls, not the enqueue calls), a request never carries a
\* record while a record of the same category that was enqueued earlier
\* still waits to be sent.
C11_SentInEnqueueOrder ==
    [][\A rq \in Issued :
        rq[1] # "error" =>
            \A d \in Range(rq[2]) : \A e \in Waiting(queue', flights', rq[1]) : e > d]_vars

\* C12: the periodic flush timer of a transport is set from construction
\* until the first destroy(); once destroy() has been called the timer is
\* cleared, its callback can no longer run, and nothing sets it again,
\* however many destroy() calls follow.
C12_TimerUntilDestroy ==
    /\ [](destroys = 0 => flushInterval)
    /\ [](destroys > 0 => ~flushInterval /\ ~ENABLED PeriodicFlush)
    /\ [][~flushInterval => ~flushInterval']_vars

\* C12 witness: destroy() was called twice and an entry that failed in the
\* final flush is back in the queue, with no flush in progress.
C12_Witness ==
    /\ destroys = 2
    /\ queue # <<>>
    /\ flights = <<>>
    /\ failures > 0

\* C13 (as claimed): the step that stops the gesture classifier leaves no
\* long-press timer pending.
C13_StopCancelsLongPress ==
    [][(heatmapFlushInterval /\ ~heatmapFlushInterval') => timeouts' = {}]_vars

\* The ids of the records in the classifier's buffers, touches first.
Buffered == [k \in 1..Len(touchQueue \o scrollQueue) |-> (touchQueue \o scrollQueue)[k].id]

\* The data of the items of the flights from index s on, in order.
RECURSIVE ItemsFrom(_, _)
ItemsFrom(fl, s) ==
    IF s > Len(fl) THEN <<>>
    ELSE [k \in 1..Len(fl[s].items) |-> fl[s].items[k].data] \o ItemsFrom(fl, s + 1)

\* C14: the destroy() of an initialized SDK leaves the queue and both buffers
\* of the classifier empty, and the flushes it starts hold, in this order,
\* every entry the queue held, every buffered touch record and every
\* buffered scroll record.
C14_DestroyFlushesBuffers ==
    [][(initialized /\ ~initialized') =>
        /\ touchQueue' = <<>>
        /\ scrollQueue' = <<>>
        /\ queue' = <<>>
        /\ Len(flights') >= Len(flights)
        /\ ItemsFrom(flights', Len(flights) + 1)
             = [k \in 1..Len(queue) |-> queue[k].data] \o Buffered]_vars

\* C14 witness: the SDK was destroyed and its final flush holds an event, a
\* touch record and a scroll record, with nothing left behind.
C14_Witness ==
    /\ ~initialized
    /\ destroys = 1
    /\ queue = <<>>
    /\ touchQueue = <<>>
    /\ scrollQueue = <<>>
    /\ \E s \in 1..Len(flights) :
         /\ Len(flights[s].items) = 3
         /\ flights[s].items[1].type = "event"
         /\ flights[s].items[2].type = "heatmap"
         /\ flights[s].items[3].type = "heatmap"
         /\ flights[s].groups[2].requests = <<<<flights[s].items[2].data, flights[s].items[3].data>>>>

\* This step is a touch-up that ends a gesture: onTouchEnd found a touch-down
\* point and cleared it.
TouchUp == touchStartPoint # {} /\ touchStartPoint' = {}

\* The touch-down point of the gesture in progress.
Down == CHOOSE pt \in touchStartPoint : TRUE

\* The arguments of the touch-up of this step, and what it measures.
UpX == lastInput'[1].x

UpY == lastInput'[1].y

Dx == UpX - Down.x

Dy == UpY - Down.y

Duration == now - touchStartTime

\* The records this step hands to recordTouch.
Produced == SubSeq(recorded', Len(recorded) + 1, Len(recorded'))

\* This step runs a long-press timeout that finds a touch held.
LongPressFires == timeouts' # timeouts /\ timeouts' \subseteq timeouts /\ touchStartPoint' # {}

\* C15 (as claimed): a long-press timeout that finds the touch still held
\* produces exactly one longPress record at the touch-down coordinates, and
\* the touch-up that ends a gesture whose longPress was produced produces no
\* record.
C15_LongPressOnceThenNothing ==
    /\ [][LongPressFires =>
            Produced = <<[type |-> "longPress", x |-> Down.x, y |-> Down.y,
                          extra |-> [duration |-> 500]]>>]_vars
    /\ [][(TouchUp /\ recorded # <<>> /\ recorded[Len(recorded)].type = "longPress")
            => Produced = <<>>]_vars

\* C16: a touch-up less than 10 px from the touch-down point and less than
\* 500 ms after it produces exactly one record, a tap at the touch-down
\* coordinates.
C16_TapClassified ==
    [][(TouchUp /\ Dx * Dx + Dy * Dy < 100 /\ Duration < 500) =>
        Produced = <<[type |-> "tap", x |-> Down.x, y |-> Down.y,
                      extra |-> [duration |-> Duration]]>>]_vars

\* C16 witness: touch-down at (0,0) at t=0, touch-up at (3,4) at t=50, and
\* the one record produced is the tap at (0,0).
C16_Witness ==
    /\ lastInput = <<[op |-> "onTouchEnd", x |-> 3, y |-> 4]>>
    /\ touchStartTime = 0
    /\ now = 50
    /\ touchStartPoint = {}
    /\ recorded = <<[type |-> "tap", x |-> 0, y |-> 0, extra |-> [duration |-> 50]]>>

\* The direction of the claim: the axis of greater magnitude and its sign;
\* when both magnitudes are equal, the vertical axis.
ClaimedDirection ==
    IF Abs(Dx) > Abs(Dy) THEN (IF Dx > 0 THEN "right" ELSE "left")
    ELSE IF Abs(Dy) > Abs(Dx) THEN (IF Dy > 0 THEN "down" ELSE "up")
    ELSE (IF Dy > 0 THEN "down" ELSE "up")

\* C17: a touch-up at least 50 px from the touch-down point, with distance
\* over duration at least 0.3 px/ms (any positive distance when the duration
\* is 0), produces exactly one record, a swipe whose direction is the axis of
\* greater magnitude with its sign, and the vertical axis when |dx| = |dy|.
C17_SwipeClassified ==
    [][(TouchUp /\ Dx * Dx + Dy * Dy >= 2500
               /\ 100 * (Dx * Dx + Dy * Dy) >= 9 * Duration * Duration) =>
        Produced = <<[type |-> "swipe", x |-> Down.x, y |-> Down.y,
                      extra |-> [direction |-> ClaimedDirection, duration |-> Duration,
                                 endX |-> UpX, endY |-> UpY]]>>]_vars

\* C17 witness: touch-down at (0,0) at t=0, touch-up at (100,0) at t=200,
\* and the one record produced is a swipe to the right.
C17_Witness ==
    /\ lastInput = <<[op |-> "onTouchEnd", x |-> 100, y |-> 0]>>
    /\ touchStartPoint = {}
    /\ recorded = <<[type |-> "swipe", x |-> 0, y |-> 0,
                     extra |-> [direction |-> "right", duration |-> 200,
                                endX |-> 100, endY |-> 0]]>>

\* C18: a touch-up produces at most one record, and none when it is neither
\* a tap (under 10 px and under 500 ms) nor a swipe (at least 50 px at
\* 0.3 px/ms or more).
C18_OtherwiseNothing ==
    [][TouchUp =>
        /\ Len(Produced) <= 1
        /\ (/\ ~(Dx * Dx + Dy * Dy < 100 /\ Duration < 500)
            /\ ~(Dx * Dx + Dy * Dy >= 2500
                    /\ 100 * (Dx * Dx + Dy * Dy) >= 9 * Duration * Duration))
              => Produced = <<>>]_vars

\* C18 witness: touch-down at (0,0) at t=0, touch-up at (20,0) at t=400, and
\* no record was produced.
C18_Witness ==
    /\ lastInput = <<[op |-> "onTouchEnd", x |-> 20, y |-> 0]>>
    /\ touchStartTime = 0
    /\ now = 400
    /\ touchStartPoint = {}
    /\ nextTimeout = 2
    /\ recorded = <<>>

\* This step is an onScroll call that changes the state; ScrollInput is its
\* arguments with the depth it computed.
ScrollStep ==
    /\ lastInput' # <<>>
    /\ lastInput'[1].op = "onScroll"
    /\ lastInput' # lastInput \/ nextId' # nextId \/ scrollStartY' # scrollStartY

ScrollInput == lastInput'[1]

StrictlyIncreasing(depths) ==
    \A k \in 1..(Len(depths) - 1) : depths[k] < depths[k + 1]

\* C19: onScroll produces a scroll record exactly when the depth it computed
\* is greater than the mark of the current screen, and then the mark becomes
\* that depth; a screen's mark decreases only when setCurrentScreen activates
\* the screen, and the depths of the records produced for a screen since its
\* last activation are strictly increasing and at most its mark.
C19_RecordIffDeeper ==
    /\ [][ScrollStep =>
            IF ScrollInput.scrollDepth > maxScrollDepth[currentScreen]
            THEN /\ Len(scrollQueue') = Len(scrollQueue) + 1
                 /\ SubSeq(scrollQueue', 1, Len(scrollQueue)) = scrollQueue
                 /\ scrollQueue'[Len(scrollQueue')].scrollDepth = ScrollInput.scrollDepth
                 /\ scrollQueue'[Len(scrollQueue')].screenName = currentScreen
                 /\ maxScrollDepth' = [maxScrollDepth EXCEPT
                                         ![currentScreen] = ScrollInput.scrollDepth]
            ELSE scrollQueue' = scrollQueue /\ maxScrollDepth' = maxScrollDepth]_vars
    /\ [][\A s \in ScreenNames :
            maxScrollDepth'[s] < maxScrollDepth[s] =>
                currentScreen' = s /\ scrolled'[s] = <<>> /\ scrollQueue' = scrollQueue]_vars
    /\ [](\A s \in ScreenNames :
            /\ StrictlyIncreasing(scrolled[s])
            /\ \A k \in 1..Len(scrolled[s]) : scrolled[s][k] <= maxScrollDepth[s])

\* C19 witness: on screen Home, onScroll(80, 200, 100) produced a record of
\* depth 80 and raised the mark to 80, and onScroll(30, 200, 100) after it
\* produced nothing.
C19_Witness ==
    /\ currentScreen = "Home"
    /\ scrolled["Home"] = <<80>>
    /\ maxScrollDepth["Home"] = 80
    /\ Len(scrollQueue) = 1
    /\ lastInput = <<[op |-> "onScroll", scrollY |-> 30, contentHeight |-> 200,
                      viewportHeight |-> 100, scrollDepth |-> 30]>>

Clamp(v) == IF v < 0 THEN 0 ELSE IF v > 100 THEN 100 ELSE v

\* v is 100 * scrollY / maxScrollY rounded to an integer, a half either way.
IsRounded(v, scrollY, maxScrollY) ==
    /\ 2 * maxScrollY * v - maxScrollY <= 200 * scrollY
    /\ 200 * scrollY <= 2 * maxScrollY * v + maxScrollY

\* C20 (as claimed): the depth onScroll computes is the rounded quotient
\* 100 * scrollY / (contentHeight - viewportHeight) clamped to 0..100 when
\* contentHeight exceeds viewportHeight, and 100 otherwise; the computed
\* depth, the scrollDepth of every record and every mark lie in 0..100.
C20_DepthWithinRange ==
    /\ \A s \in ScreenNames : maxScrollDepth[s] \in 0..100
    /\ \A k \in 1..Len(scrollQueue) : scrollQueue[k].scrollDepth \in 0..100
    /\ (lastInput # <<>> /\ lastInput[1].op = "onScroll") =>
          LET in == lastInput[1]
              maxScrollY == in.contentHeight - in.viewportHeight
              halfUp == (200 * in.scrollY + maxScrollY) \div (2 * maxScrollY)
          IN  /\ in.scrollDepth \in 0..100
              /\ IF maxScrollY > 0
                 THEN \E v \in {halfUp - 1, halfUp} :
                        IsRounded(v, in.scrollY, maxScrollY) /\ in.scrollDepth = Clamp(v)
                 ELSE in.scrollDepth = 100

\* This step is a setCurrentScreen call: of the steps of SpecScroll, the
\* one that is no onScroll call.
ScreenStep == lastInput' = lastInput /\ nextId' = nextId /\ scrollStartY' = scrollStartY

\* C21: setCurrentScreen(s) makes s the current screen, sets the mark of s
\* to 0 and leaves the mark of every other screen as it was.
C21_ResetsOwnMarkOnly ==
    [][ScreenStep =>
        /\ maxScrollDepth'[currentScreen'] = 0
        /\ \A s \in ScreenNames \ {currentScreen'} :
              maxScrollDepth'[s] = maxScrollDepth[s]]_vars

\* C21 witness: Home and Detail were both scrolled to depth 80, and the
\* return to Home reset the mark of Home while that of Detail is still 80.
C21_Witness ==
    /\ currentScreen = "Home"
    /\ maxScrollDepth["Home"] = 0
    /\ maxScrollDepth["Detail"] = 80
    /\ scrolled["Home"] = <<>>
    /\ \E k \in 1..Len(scrollQueue) : scrollQueue[k].screenName = "Home"

\* C22 (as claimed): after any operation of the classifier fewer than 50
\* touch and scroll records are buffered.
C22_FewerThanFiftyBuffered == Len(touchQueue) + Len(scrollQueue) < 50

\* The record a step of the classifier adds: a touch record goes at the end
\* of the touches, a scroll record at the end of the scrolls.
NewTouch == IF recorded' # recorded /\ nextId' # nextId THEN <<nextId>> ELSE <<>>

NewScroll == IF recorded' = recorded /\ nextId' # nextId THEN <<nextId>> ELSE <<>>

DataOfQueue(q) == [k \in 1..Len(q) |-> q[k].data]

\* C22 (amended): each of the two buffers holds fewer than 50 records after
\* any operation, and a step that takes records out of a buffer empties
\* both buffers into the transport queue: the flushes the transport starts
\* in that step, followed by its queue, hold what the queue held, then the
\* touch records, then the scroll records.
C22_EachBufferBelowBound ==
    /\ [](Len(touchQueue) < 50 /\ Len(scrollQueue) < 50)
    /\ [][(Len(touchQueue') < Len(touchQueue) \/ Len(scrollQueue') < Len(scrollQueue)) =>
            /\ touchQueue' = <<>>
            /\ scrollQueue' = <<>>
            /\ Len(flights') >= Len(flights)
            /\ SubSeq(flights', 1, Len(flights)) = flights
            /\ ItemsFrom(flights', Len(flights) + 1) \o DataOfQueue(queue')
                 = DataOfQueue(queue) \o [k \in 1..Len(touchQueue) |-> touchQueue[k].id]
                     \o NewTouch \o [k \in 1..Len(scrollQueue) |-> scrollQueue[k].id]
                     \o NewScroll]_vars
    /\ [][(Len(touchQueue) + Len(NewTouch) >= 50 \/ Len(scrollQueue) + Len(NewScroll) >= 50)
            => touchQueue' = <<>> /\ scrollQueue' = <<>>]_vars

\* C22 witness: the tap that made the touch buffer reach 50 records emptied
\* it; 30 of the records are in the flush the transport started at its own
\* bound and the other 20 are in the transport queue.
C22_Witness ==
    /\ nextId = 2
    /\ Len(recorded) = 50
    /\ recorded[50].type = "tap"
    /\ touchQueue = <<>>
    /\ Len(flights) = 1
    /\ Len(flights[1].items) = 30
    /\ Len(queue) = 20

\* C23: with the interval timer firing, every request answered and no more
\* records arriving, the queue and the flushes in progress eventually are
\* and stay empty; and each firing of the timer takes every queued entry,
\* the re-queued ones included, into the flush it starts.
C23_QueueEventuallyDrained ==
    /\ <>[](queue = <<>> /\ flights = <<>>)
    /\ [][(flushInterval /\ queue # <<>> /\ Len(flights') = Len(flights) + 1) =>
            /\ queue' = <<>>
            /\ flights'[Len(flights')].items = queue]_vars

\* C23 witness: record 1 failed four times, each time but the last waiting
\* in the queue for the next firing of the timer, and was then dropped; the
\* queue is empty and no flush is in progress.
C23_Witness ==
    /\ queue = <<>>
    /\ flights = <<>>
    /\ failures = 4
    /\ dropped = {1}

\* C24 (as claimed): while the SDK is opted out, no step enqueues a record
\* in the transport queue and no step hands a request to the network.
C24_OptedOutSendsNothing ==
    [][(isOptedOut /\ isOptedOut') => (Issued = {} /\ Len(queue') <= Len(queue))]_vars

\* The keys the claim requires in every payload.
Required == {"apiKey", "applicationId", "sessionId", "timestamp"}

\* C25 (as claimed): the payload of every request of a flush, of every
\* direct call and of every direct send of an error has the keys apiKey,
\* applicationId, sessionId and timestamp.
C25_PayloadHasCommonFields ==
    /\ [][\A rq \in Issued : Required \subseteq PayloadKeys(rq[1], rq[2])]_vars
    /\ [](\A c \in calls : Required \subseteq DirectPayloadKeys(c.op))
    /\ [](errPending # {} => Required \subseteq DirectPayloadKeys("sendError"))

\* This step is an onPinch call: recordTouch is handed a pinch.
PinchStep == Produced # <<>> /\ Produced[1].type = "pinch"

\* C26: onPinch hands recordTouch exactly one record, the pinch with the
\* scale and the coordinates of its arguments, and leaves the touch-down
\* point, the touch-down time and the pending long-press timeout as they were.
C26_PinchLeavesGestureState ==
    [][PinchStep =>
        /\ Len(Produced) = 1
        /\ \E p \in Pinches :
              Produced[1] = [type |-> "pinch", x |-> p[2], y |-> p[3],
                             extra |-> [scale |-> p[1]]]
        /\ touchStartPoint' = touchStartPoint
        /\ touchStartTime' = touchStartTime
        /\ longPressTimeout' = longPressTimeout
        /\ timeouts' = timeouts]_vars

\* C26 witness: a pinch at (10,20) was recorded while the touch that went
\* down at (0,0) is held and its long-press timeout is pending.
C26_Witness ==
    /\ recorded = <<[type |-> "pinch", x |-> 10, y |-> 20, extra |-> [scale |-> 2]]>>
    /\ touchStartPoint = {[x |-> 0, y |-> 0]}
    /\ longPressTimeout = 1
    /\ timeouts = {[handle |-> 1, due |-> 500]}

\* C27 (as claimed): at most one long-press timeout is pending at any time,
\* and none is pending after a touch-up or after a timeout has fired.
C27_AtMostOneTimer ==
    /\ [](Cardinality(timeouts) <= 1)
    /\ [][TouchUp => timeouts' = {}]_vars
    /\ [][(timeouts' # timeouts /\ timeouts' \subseteq timeouts) => timeouts' = {}]_vars

\* The record of this step's recordTouch call went into the touch buffer, or
\* filled it and was flushed with it.
TouchBuffered ==
    /\ nextId' = nextId + 1
    /\ LET td == [id |-> nextId, type |-> Produced[1].type, x |-> Produced[1].x,
                  y |-> Produced[1].y, screenName |-> currentScreen,
                  extra |-> Produced[1].extra]
       IN  \/ touchQueue' = Append(touchQueue, td)
           \/ Len(touchQueue) + 1 >= MAX_QUEUE_SIZE /\ touchQueue' = <<>>

\* The sampling draw of this step's recordTouch call dropped the record.
TouchSuppressed == UNCHANGED <<touchQueue, scrollQueue, queue, flights, nextId>>

\* C28 (as claimed): a classified record handed to recordTouch is either
\* buffered or suppressed by the sampling draw and is buffered when no draw
\* can exceed touchSampling; the draw does not touch the gesture state, and
\* after a touch-up there is no stored touch-down point, no timeout handle
\* and no pending long-press timeout, whether the record was buffered or not.
C28_SamplingKeepsGestureState ==
    /\ [][Produced # <<>> =>
            /\ Len(Produced) = 1
            /\ Produced[1].type \in {"tap", "swipe", "longPress", "pinch"}
            /\ TouchBuffered \/ TouchSuppressed
            /\ heatmapOptions.touchSampling = 100 => TouchBuffered
            /\ ~TouchUp => UNCHANGED <<touchStartPoint, longPressTimeout>>]_vars
    /\ [][TouchUp => touchStartPoint' = {} /\ longPressTimeout' = 0 /\ timeouts' = {}]_vars

\* The record this onScroll call produced, if it produced one.
ProducedScroll ==
    IF nextId' = nextId THEN <<>>
    ELSE IF scrollQueue' # <<>> THEN <<scrollQueue'[Len(scrollQueue')]>>
    ELSE <<>>

\* C29: the direction of the record an onScroll call produces is "down" when
\* its scrollY is greater than the scrollY of the onScroll call before it and
\* "up" otherwise; every onScroll call leaves its scrollY as the sample the
\* next call compares with, and setCurrentScreen leaves the sample alone.
C29_DirectionFromPreviousCall ==
    /\ [][(ScrollStep /\ ProducedScroll # <<>> /\ lastInput # <<>>) =>
            ProducedScroll[1].direction =
                IF ScrollInput.scrollY > lastInput[1].scrollY THEN "down" ELSE "up"]_vars
    /\ [][ScrollStep => scrollStartY' = ScrollInput.scrollY]_vars
    /\ [][ScreenStep => scrollStartY' = scrollStartY]_vars
    /\ [](lastInput # <<>> => scrollStartY = lastInput[1].scrollY)

\* C29 witness: a record of scrollY 30 on Home, then a call with a smaller
\* scrollY that produced nothing, then screen Detail became active and
\* onScroll(29, 300, 100) produced a record of direction "down".
C29_Witness ==
    /\ Len(scrollQueue) = 2
    /\ scrollQueue[1].screenName = "Home"
    /\ scrollQueue[1].scrollDepth = 30
    /\ scrollQueue[2].screenName = "Detail"
    /\ scrollQueue[2].direction = "down"
    /\ lastInput = <<[op |-> "onScroll", scrollY |-> 29, contentHeight |-> 300,
                      viewportHeight |-> 100, scrollDepth |-> 14]>>

\* The screens whose render was started and, some time later, completed:
\* endScreenRender sent their ScreenRender metric with a render time above 0.
Rendered ==
    {sentMetrics[k].screenName :
       k \in {j \in 1..Len(sentMetrics) : /\ sentMetrics[j].metricName = "ScreenRender"
                                          /\ sentMetrics[j].value > 0}}

\* The metrics this step handed to the transport.
NewMetrics == SubSeq(sentMetrics', Len(sentMetrics) + 1, Len(sentMetrics'))

\* C30 (as claimed): markInteractive called for a screen whose render was
\* started and completed sends one TimeToInteractive metric for that screen.
C30_MarkInteractiveSends ==
    [][(/\ lastPerfCall' # lastPerfCall
        /\ lastPerfCall'[1].op = "markInteractive"
        /\ lastPerfCall'[1].screenName \in Rendered) =>
            /\ Len(NewMetrics) = 1
            /\ NewMetrics[1].metricName = "TimeToInteractive"
            /\ NewMetrics[1].screenName = lastPerfCall'[1].screenName]_vars

\* No TimeToInteractive metric is ever handed to the transport.
NoTimeToInteractive ==
    \A k \in 1..Len(sentMetrics) : sentMetrics[k].metricName # "TimeToInteractive"

\* C31 (as claimed): an entry dropped at maxRetries was carried by a request
\* that failed; none is dropped that was never put on the wire.
C31_DroppedAfterOwnFailure == dropped \subseteq failedSends

\* C32 (as claimed): no request issued by a flush carries an entry that an
\* earlier request had delivered with success.
C32_DeliveredNeverResent ==
    [][\A rq \in Issued : Range(rq[2]) \cap delivered = {}]_vars

\* C33 (as claimed): between two tasks of the event loop the transport queue
\* holds fewer than maxQueueSize entries.
C33_QueueBelowWatermark == MicrotasksDrained => Len(queue) < maxQueueSize

\* The groups of flights in progress that may still dispatch: those awaiting
\* a response.
Dispatching ==
    UNION {{<<s, i>> : i \in {j \in 1..Len(flights[s].groups) :
                                  flights[s].groups[j].state = "awaiting"}}
           : s \in 1..Len(flights)}

\* The owners of the entry with data d: its places in the queue and the
\* dispatching groups whose dataArray holds it.
Owners(d) ==
    Cardinality({k \in 1..Len(queue) : queue[k].data = d}) +
    Cardinality({p \in Dispatching : d \in Range(flights[p[1]].groups[p[2]].dataArray)})

\* C34: every entry is in the queue once, or belongs to one group of one
\* flush in progress that is still dispatching, never to two of these at
\* once; and the entries a flush takes are taken out of the queue.
C34_OneOwnerPerEntry ==
    \A d \in Held \cup Taken(flights) : Owners(d) <= 1

\* C34 witness: two flushes overlap, both awaiting the network, and the later
\* one took an entry that the earlier one had taken, failed to send and
\* re-queued.
C34_Witness ==
    /\ Len(flights) = 2
    /\ \E p \in Dispatching : p[1] = 1
    /\ \E p \in Dispatching : p[1] = 2
    /\ \E k \in 1..Len(flights[1].items), j \in 1..Len(flights[2].items) :
          /\ flights[1].items[k].data = flights[2].items[j].data
          /\ flights[2].items[j].retryCount = flights[1].items[k].retryCount + 1

\* C35 (as claimed): once the transport is destroyed, its timer is cleared and
\* every flush has returned, no entry that a failed flush put back is left in
\* the queue, where nothing would send it any more.
C35_NothingStranded ==
    (destroys > 0 /\ ~flushInterval /\ flights = <<>>) =>
        \A k \in 1..Len(queue) : queue[k].retryCount = 0

\* The transport interval timers that are running: the one of the transport
\* the SDK holds and those of the transports it has replaced.
TransportTimers == (IF sdkTransport /\ flushInterval THEN 1 ELSE 0) + orphanTimers

\* C36 (as claimed): at most one transport interval timer is running.
C36_OneTransportTimer == TransportTimers <= 1

\* C37 (as claimed): a longPress record is produced only while a touch is
\* held, at that touch's touch-down coordinates, and not before
\* LONG_PRESS_DURATION ms have passed since that touch went down.
C37_LongPressOnlyAfterHold ==
    [][(Produced # <<>> /\ Produced[1].type = "longPress") =>
        /\ touchStartPoint # {}
        /\ Produced[1].x = Down.x /\ Produced[1].y = Down.y
        /\ now - touchStartTime >= LONG_PRESS_DURATION]_vars

\* C38 (as claimed): while heatmapOptions.enabled is false neither buffer of
\* the collector holds a record and no heatmap entry is in the transport.
C38_DisabledProducesNothing ==
    ~heatmapOptions.enabled =>
        /\ touchQueue = <<>>
        /\ scrollQueue = <<>>
        /\ \A k \in 1..Len(queue) : queue[k].type # "heatmap"
        /\ \A s \in 1..Len(flights) :
              \A k \in 1..Len(flights[s].items) : flights[s].items[k].type # "heatmap"

\* C39 (as claimed): the buffer of the recording collector is in recording
\* order, an event recorded earlier before every event recorded later.
C39_BufferInRecordingOrder ==
    \A j \in 1..Len(events), k \in 1..Len(events) : j < k => events[j] < events[k]

\* The urls the transport sends to, whatever the category.
TransportUrls ==
    {TransportUrl(Endpoint(t, b)) :
        t \in {"event", "error", "network", "performance", "heatmap", "screen"},
        b \in BOOLEAN}

\* C40: the patched fetch, when it has seen a request of the transport,
\* enqueues nothing and starts no flush, whatever apiUrl and ignoreUrls are.
C40_OwnRequestsNotRecorded ==
    /\ [][(lastFetch' # lastFetch /\ lastFetch'[1] \in TransportUrls) =>
            UNCHANGED <<queue, flights, nextId>>]_vars
    /\ [](\A url \in TransportUrls : shouldIgnoreUrl(url))

\* C40 witness: with an apiUrl of the application's own, the patched fetch
\* has seen the request of a flush that is still on the wire, and the queue
\* is empty.
C40_Witness ==
    /\ networkConfig.apiUrl = <<"https://", "collect.example">>
    /\ lastFetch \in {<<url>> : url \in OnTheWire}
    /\ queue = <<>>

====
